---- MODULE Spec2Model ----
(***************************************************************************)
(* A model of the Product / User CRUD backend: the service layer           *)
(* (ProductService, UserService), the repositories' paginated reads, the   *)
(* query option builder and the in-process pub/sub bus.                    *)
(*                                                                         *)
(* Strings are sequences of one-character strings, so that trimming,       *)
(* lower-casing and substring search are computed and not assumed.         *)
(* Prices are integers (cents).                                            *)
(***************************************************************************)
EXTENDS Integers, Sequences, FiniteSets, TLC

VARIABLES
    products,   \* the Product table: a set of rows
    nextId,     \* the Product table's autoincrement counter
    users,      \* the User table: a set of rows
    nextUid,    \* the User table's autoincrement counter
    call,       \* the service calls in flight, one per request slot
    started,    \* number of service calls started so far
    subs,       \* the subscription iterators handed out by the bus
    events,     \* the log of everything published on the bus, in order
    fnd,        \* the paginated reads (findAll / findWithFilters) in flight
    srch,       \* the repository search calls in flight
    lnk,        \* the links last built by the response builder
    flt         \* the last decision of a subscription's filter function

vars == <<products, nextId, users, nextUid, call, started, subs, events, fnd, srch, lnk, flt>>

(***************************************************************************)
(* Bounds of the model.                                                    *)
(***************************************************************************)
\* service calls started in one behaviour
MaxOps == 2
\* rows written directly through the repositories in one behaviour
MaxRows == 2

Calls == {1, 2}
Subs == {1, 2}
Finders == {1}

(***************************************************************************)
(* Strings.                                                                *)
(***************************************************************************)
\* String.prototype.toLowerCase, on the letters the model uses
LowerChar(ch) ==
    CASE ch = "A" -> "a"
      [] ch = "B" -> "b"
      [] ch = "C" -> "c"
      [] ch = "D" -> "d"
      [] OTHER -> ch

toLowerCase(s) == [i \in 1..Len(s) |-> LowerChar(s[i])]

RECURSIVE trimStart(_)
trimStart(s) ==
    IF s # <<>> /\ Head(s) = " " THEN trimStart(Tail(s)) ELSE s

RECURSIVE trimEnd(_)
trimEnd(s) ==
    IF s # <<>> /\ s[Len(s)] = " " THEN trimEnd(SubSeq(s, 1, Len(s) - 1)) ELSE s

\* String.prototype.trim
trim(s) == trimEnd(trimStart(s))

\* substring test
includes(hay, needle) ==
    \E i \in 0..(Len(hay) - Len(needle)) : SubSeq(hay, i + 1, i + Len(needle)) = needle

\* Prisma's { contains: q, mode: 'insensitive' }
containsInsensitive(hay, q) == includes(toLowerCase(hay), toLowerCase(q))

\* the values a nullable string field takes besides a string
Null == <<"null">>
Undefined == <<"undefined">>

IsString(v) == v # Null /\ v # Undefined

(***************************************************************************)
(* Product DTOs.  A DTO carries name, description and category as strings  *)
(* (or Undefined when the key is absent, Null for an explicit null) and a  *)
(* price that is present or not.                                           *)
(***************************************************************************)
Dto(n, d, hp, p, c) ==
    [name |-> n, description |-> d, hasPrice |-> hp, price |-> p, category |-> c]

NoDto == Dto(Undefined, Undefined, FALSE, 0, Undefined)

\* ProductBaseDTO's @Transform of name: trim
TransformNameRaw(v) == v

TransformName(v) == IF IsString(v) THEN trim(v) ELSE v

\* ProductBaseDTO's @Transform of description: null and '' become null (an absent key stays absent)
TransformDescription(v) ==
    IF v = Undefined THEN Undefined
    ELSE IF v = Null \/ v = <<>> THEN Null
    ELSE trim(v)

\* ProductBaseDTO's @Transform of category: lower-case, then trim
TransformCategory(v) == IF IsString(v) THEN trim(toLowerCase(v)) ELSE v

\* what the transport hands to the service for a payload: class-transformer
\* applies each field's @Transform to the keys the payload carries
TransformDto(raw) ==
    Dto(TransformName(raw.name), TransformDescription(raw.description),
        raw.hasPrice, raw.price, TransformCategory(raw.category))

\* a string is falsy when it is undefined, null or empty
Falsy(v) == v = Undefined \/ v = Null \/ v = <<>>

MaxNameLength == 255
MaxDescriptionLength == 1000
MaxCategoryLength == 100
\* 999,999.99 in cents
MaxPrice == 99999999

Err(f, c) == [field |-> f, constraint |-> c]

\* ProductService.validateCreateProductDto: the list of errors it collects
validateCreateProductDto(dto) ==
    (IF Falsy(dto.name) \/ Len(trim(dto.name)) = 0 THEN <<Err("name", "required")>>
     ELSE IF Len(dto.name) > MaxNameLength THEN <<Err("name", "maxLength")>>
     ELSE <<>>)
    \o
    (IF ~Falsy(dto.description) /\ Len(dto.description) > MaxDescriptionLength
     THEN <<Err("description", "maxLength")>> ELSE <<>>)
    \o
    (IF ~dto.hasPrice THEN <<Err("price", "required")>>
     ELSE IF dto.price < 0 THEN <<Err("price", "min")>>
     ELSE IF dto.price > MaxPrice THEN <<Err("price", "max")>>
     ELSE <<>>)
    \o
    (IF Falsy(dto.category) \/ Len(trim(dto.category)) = 0
     THEN <<Err("category", "required")>>
     ELSE IF Len(dto.category) > MaxCategoryLength THEN <<Err("category", "maxLength")>>
     ELSE <<>>)

\* ProductService.validateUpdateProductDto: the list of errors it collects
validateUpdateProductDto(dto) ==
    (IF Falsy(dto.name) /\ Falsy(dto.description) /\ ~dto.hasPrice /\ Falsy(dto.category)
     THEN <<Err("body", "required")>> ELSE <<>>)
    \o
    (IF dto.name = Undefined THEN <<>>
     ELSE IF Falsy(dto.name) \/ Len(trim(dto.name)) = 0 THEN <<Err("name", "required")>>
     ELSE IF Len(dto.name) > MaxNameLength THEN <<Err("name", "maxLength")>>
     ELSE <<>>)
    \o
    (IF IsString(dto.description) /\ Len(dto.description) > MaxDescriptionLength
     THEN <<Err("description", "maxLength")>> ELSE <<>>)
    \o
    (IF ~dto.hasPrice THEN <<>>
     ELSE IF dto.price < 0 THEN <<Err("price", "min")>>
     ELSE IF dto.price > MaxPrice THEN <<Err("price", "max")>>
     ELSE <<>>)
    \o
    (IF dto.category = Undefined THEN <<>>
     ELSE IF Falsy(dto.category) \/ Len(trim(dto.category)) = 0
     THEN <<Err("category", "required")>>
     ELSE IF Len(dto.category) > MaxCategoryLength THEN <<Err("category", "maxLength")>>
     ELSE <<>>)

(***************************************************************************)
(* The Product table and ProductRepository.                                *)
(***************************************************************************)
Row(i, n, d, p, c) ==
    [id |-> i, name |-> n, description |-> d, price |-> p, category |-> c]

NoRow == Row(0, Undefined, Undefined, 0, Undefined)

\* ProductRepository.findById: the row, or NoRow for null
findById(table, id) ==
    IF \E r \in table : r.id = id THEN CHOOSE r \in table : r.id = id ELSE NoRow

\* ProductRepository.search(query, ['name']): rows whose name contains the query
searchByName(table, query) == {r \in table : containsInsensitive(r.name, query)}

\* ProductRepository.create: the table with the new row, which takes the next id
repoCreate(table, id, data) ==
    table \cup {Row(id, data.name, data.description, data.price, data.category)}

\* the data object, were every field handed on as it came
createDataAsIs(dto) ==
    [name |-> dto.name, description |-> dto.description,
     price |-> dto.price, category |-> dto.category]

\* the data object ProductService.create hands to the repository
createData(dto) ==
    [name |-> dto.name,
     description |-> IF Falsy(dto.description) THEN Null ELSE dto.description,
     price |-> dto.price,
     category |-> dto.category]

\* the row ProductRepository.update leaves: only the keys of updateData change
updatedRow(r, dto) ==
    Row(r.id,
        IF dto.name # Undefined THEN dto.name ELSE r.name,
        IF dto.description # Undefined THEN dto.description ELSE r.description,
        IF dto.hasPrice THEN dto.price ELSE r.price,
        IF dto.category # Undefined THEN dto.category ELSE r.category)

repoUpdate(table, id, dto) ==
    (table \ {findById(table, id)}) \cup {updatedRow(findById(table, id), dto)}

\* a delete that leaves the row in place
repoDeleteKeep(table, id) == table

\* ProductRepository.delete
repoDelete(table, id) == {r \in table : r.id # id}

(***************************************************************************)
(* The User table and UserRepository.                                      *)
(***************************************************************************)
UserRow(i, e, pw) == [id |-> i, email |-> e, password |-> pw]

NoUser == UserRow(0, Undefined, Undefined)

userFindById(table, id) ==
    IF \E r \in table : r.id = id THEN CHOOSE r \in table : r.id = id ELSE NoUser

userCreate(table, id, data) == table \cup {UserRow(id, data.email, data.password)}

updatedUser(r, data) ==
    UserRow(r.id,
            IF data.email # Undefined THEN data.email ELSE r.email,
            IF data.password # Undefined THEN data.password ELSE r.password)

userUpdate(table, id, data) ==
    (table \ {userFindById(table, id)}) \cup {updatedUser(userFindById(table, id), data)}

userDelete(table, id) == {r \in table : r.id # id}

(***************************************************************************)
(* The inputs the requests are drawn from.                                 *)
(***************************************************************************)
RawCreateDtos ==
    { Dto(<<"a","b">>, Undefined, TRUE, 500, <<"B","k">>),
      Dto(<<"A","B">>, <<>>, TRUE, 500, <<"b","k">>),
      Dto(<<" ","a","b"," ">>, <<"d">>, TRUE, 1500, <<"t","y"," ">>),
      Dto(<<"a","b","c">>, Undefined, TRUE, 1500, <<"t","y">>),
      Dto(<<" ">>, Undefined, TRUE, 500, <<"b","k">>),
      Dto(<<"c","d">>, Undefined, TRUE, -1, <<"b","k">>) }

RawUpdateDtos ==
    { Dto(<<"A","b"," ">>, Undefined, FALSE, 0, Undefined),
      Dto(<<"c","d">>, Undefined, TRUE, 1500, Undefined),
      Dto(Undefined, Undefined, TRUE, 1500, <<"T","y">>),
      Dto(Undefined, Undefined, FALSE, 0, Undefined) }

\* updates of a single field: description cleared, description set, category
\* set, price set to 0
PartialUpdateDtos ==
    { Dto(Undefined, Null, FALSE, 0, Undefined),
      Dto(Undefined, <<"d"," ">>, FALSE, 0, Undefined),
      Dto(Undefined, Undefined, FALSE, 0, <<"T","y">>),
      Dto(Undefined, Undefined, TRUE, 0, Undefined) }

\* creates at the edges of the price range: 0, and one cent above the maximum
EdgePriceDtos ==
    { Dto(<<"c","d">>, Undefined, TRUE, 0, <<"b","k">>),
      Dto(<<"c","d">>, Undefined, TRUE, MaxPrice + 1, <<"b","k">>) }

ProductIds == {0, 1, 2}

UserData(e, pw) == [email |-> e, password |-> pw]

CreateUserDatas == { UserData(<<"x">>, <<"p">>) }

UpdateUserDatas == { UserData(<<"z">>, Undefined) }

UserIds == {1}

(***************************************************************************)
(* What a service call ends with.                                          *)
(***************************************************************************)
Outcome(k, code, errs, msg) ==
    [kind |-> k, code |-> code, errors |-> errs, message |-> msg]

Pending == Outcome("pending", 0, <<>>, "")

SuccessEnvelope(code, msg) == Outcome("success", code, <<>>, msg)

\* ValidationException.forFields / forField
ValidationException(errs) == Outcome("ValidationException", 400, errs, "")

NotFoundException == Outcome("NotFoundException", 404, <<>>, "not found")

BadRequestException(msg) == Outcome("BadRequestException", 400, <<>>, msg)

\* UserService's Result object for a failure
ErrorResult(code, msg) == Outcome("errorResult", code, <<>>, msg)

ProductOps == {"create", "update", "remove"}
UserOps == {"createUser", "updateUser", "deleteUser"}

\* the operations that only read
ProductReads == {"findOne", "search", "findByCategory", "findByPriceRange", "getCategories"}
UserReads == {"getUserById", "getAllUsers"}

\* the fixed message of the generic error a ProductService operation ends with
FailedMessage(op) ==
    CASE op = "create" -> "Failed to create product"
      [] op = "update" -> "Failed to update product"
      [] op = "remove" -> "Failed to delete product"
      [] op = "findOne" -> "Failed to retrieve product"
      [] op = "search" -> "Failed to search products"
      [] op = "findByCategory" -> "Failed to retrieve products by category"
      [] op = "findByPriceRange" -> "Failed to retrieve products by price range"
      [] op = "getCategories" -> "Failed to retrieve categories"
      [] op \in UserReads -> "An unexpected error occurred"
      [] op = "createUser" -> "Error creating user"
      [] op = "updateUser" -> "Error updating user"
      [] OTHER -> "Error deleting user"

\* the error of the repository or of the bus, were it to pass the catch block
UncaughtError(op) == Outcome("Error", 500, <<>>, "connection refused")

\* what the catch block of an operation turns an untyped error into
CaughtError(op) ==
    IF op \in ProductOps \cup ProductReads THEN BadRequestException(FailedMessage(op))
    ELSE IF op \in UserReads THEN ErrorResult(500, FailedMessage(op))
    ELSE ErrorResult(400, FailedMessage(op))

SuccessMessage(op) ==
    CASE op = "create" -> "Product created successfully"
      [] op = "update" -> "Product updated successfully"
      [] op = "remove" -> "Product deleted successfully"
      [] op = "findOne" -> "Product retrieved successfully"
      [] op = "search" -> "Search completed successfully"
      [] op \in {"findByCategory", "findByPriceRange"} -> "Products retrieved successfully"
      [] op = "getCategories" -> "Categories retrieved successfully"
      [] OTHER -> ""

SuccessCode(op) == IF op \in {"create", "createUser"} THEN 201 ELSE 200

\* the topic an operation publishes on
Topic(op) ==
    CASE op = "create" -> "productCreated"
      [] op = "update" -> "productUpdated"
      [] op = "remove" -> "productDeleted"
      [] op = "createUser" -> "userCreated"
      [] op = "updateUser" -> "userUpdated"
      [] OTHER -> "userDeleted"

Topics ==
    {"productCreated", "productUpdated", "productDeleted",
     "userCreated", "userUpdated", "userDeleted"}

\* the topics the modelled subscribers ask for
SubTopics == {"productCreated", "productUpdated"}

(***************************************************************************)
(* A service call.  pc is the await the call is suspended at:              *)
(*   find    the existence check (findById)                                *)
(*   search  the uniqueness check (search by name)                         *)
(*   write   the repository write (create / update / delete)               *)
(*   publish pubSub.publish                                                *)
(*   respond the links and the envelope, after publish has resolved        *)
(*   done    the call has returned or thrown: outcome says which           *)
(* args and result are the arguments and the data of a list read.          *)
(* raw, failedAt, wrote, published, dupAtStart, raced and goneAtStart      *)
(* record what the call did and met; the code does not read them.          *)
(***************************************************************************)
IdleCall ==
    [op |-> "none", pc |-> "idle", raw |-> NoDto, dto |-> NoDto, id |-> 0,
     data |-> UserData(Undefined, Undefined),
     args |-> <<>>, result |-> <<>>,
     existing |-> NoRow, written |-> NoRow, writtenUser |-> NoUser,
     wrote |-> FALSE, published |-> FALSE, failedAt |-> "",
     dupAtStart |-> FALSE, raced |-> FALSE, goneAtStart |-> FALSE, outcome |-> Pending]

\* names equal up to letter case and surrounding whitespace
SameName(a, b) == toLowerCase(trim(a)) = toLowerCase(trim(b))

Throw(c, rec, at, out) ==
    call' = [call EXCEPT ![c] = [rec EXCEPT !.pc = "done", !.failedAt = at, !.outcome = out]]

(***************************************************************************)
(* PubsubService.publish: the payload goes, synchronously, to the queue of *)
(* every iterator listening on the trigger, and to nobody else.            *)
(***************************************************************************)
listenersAll(topic) == {s \in Subs : subs[s].state = "listening"}

listeners(topic) == {s \in Subs : subs[s].state = "listening" /\ subs[s].topic = topic}

\* the id of the row a call has written (0 before its write)
writtenId(rec) ==
    CASE rec.op = "create" -> rec.written.id
      [] rec.op = "createUser" -> rec.writtenUser.id
      [] OTHER -> rec.id

\* the log entry also records, for the publishing call, whether its write had
\* resolved and which row it wrote
publish(topic, payload, c) ==
    /\ events' = Append(events, [topic |-> topic, payload |-> payload, by |-> c,
                                 wrote |-> call[c].wrote,
                                 writtenId |-> writtenId(call[c]),
                                 returned |-> call[c].pc = "done"])
    /\ subs' = [s \in Subs |->
                  IF s \in listeners(topic)
                  THEN [subs[s] EXCEPT !.inbox = Append(@, Len(events) + 1)]
                  ELSE subs[s]]

\* a remove of this id has got as far as announcing it
Removed(id) ==
    \E i \in 1..Len(events) :
        events[i].topic = "productDeleted" /\ events[i].payload.id = id

(***************************************************************************)
(* ProductService.create                                                   *)
(***************************************************************************)
\* the request arrives: the transport transforms the payload, the service
\* validates it (before the try block) and issues the uniqueness search
StartCreate(c, raw) ==
    /\ call[c].pc = "idle"
    /\ started < MaxOps
    /\ started' = started + 1
    /\ LET dto == TransformDto(raw)
           rec == [IdleCall EXCEPT !.op = "create", !.raw = raw, !.dto = dto,
                                   !.dupAtStart = \E r \in products : SameName(r.name, raw.name)]
           errs == validateCreateProductDto(dto)
       IN  IF errs # <<>>
           THEN Throw(c, rec, "validate", ValidationException(errs))
           ELSE call' = [call EXCEPT ![c] = [rec EXCEPT !.pc = "search"]]
    /\ UNCHANGED <<products, nextId, users, nextUid, subs, events, fnd, srch, lnk, flt>>

\* the row the uniqueness check of create takes for a duplicate
exactMatch(table, name) ==
    {p \in searchByName(table, name) : toLowerCase(p.name) = toLowerCase(name)}

\* another create of the same name has passed its check and not inserted yet
RacingWith(c) ==
    {d \in Calls \ {c} : /\ call[d].op = "create"
                         /\ call[d].pc = "write"
                         /\ SameName(call[d].dto.name, call[c].dto.name)}

\* the search, were a duplicate noticed and the insert issued all the same
CreateSearchNoThrow(c) ==
    /\ call[c].op = "create" /\ call[c].pc = "search"
    /\ IF exactMatch(products, call[c].dto.name) # {}
       THEN call' = [call EXCEPT ![c].pc = "write", ![c].failedAt = "unique"]
       ELSE call' = [call EXCEPT ![c].pc = "write"]
    /\ UNCHANGED <<products, nextId, users, nextUid, started, subs, events, fnd, srch, lnk, flt>>

\* the search resolves: a duplicate throws, otherwise the insert is issued
CreateSearch(c) ==
    /\ call[c].op = "create" /\ call[c].pc = "search"
    /\ IF exactMatch(products, call[c].dto.name) # {}
       THEN Throw(c, call[c], "unique", ValidationException(<<Err("name", "unique")>>))
       ELSE call' = [d \in Calls |->
                       IF d = c THEN [call[c] EXCEPT !.pc = "write", !.raced = RacingWith(c) # {}]
                       ELSE IF d \in RacingWith(c) THEN [call[d] EXCEPT !.raced = TRUE]
                       ELSE call[d]]
    /\ UNCHANGED <<products, nextId, users, nextUid, started, subs, events, fnd, srch, lnk, flt>>

\* the insert, were it to repeat the uniqueness check in the same transaction
CreateInsertTx(c) ==
    /\ call[c].op = "create" /\ call[c].pc = "write"
    /\ IF exactMatch(products, call[c].dto.name) # {}
       THEN /\ Throw(c, call[c], "unique", ValidationException(<<Err("name", "unique")>>))
            /\ UNCHANGED <<products, nextId>>
       ELSE /\ products' = repoCreate(products, nextId, createData(call[c].dto))
            /\ nextId' = nextId + 1
            /\ call' = [call EXCEPT ![c].pc = "publish", ![c].wrote = TRUE,
                                    ![c].written = findById(products', nextId)]
    /\ UNCHANGED <<users, nextUid, started, subs, events, fnd, srch, lnk, flt>>

\* the insert resolves: the row takes the next id
CreateInsert(c) ==
    /\ call[c].op = "create" /\ call[c].pc = "write"
    /\ products' = repoCreate(products, nextId, createData(call[c].dto))
    /\ nextId' = nextId + 1
    /\ call' = [call EXCEPT ![c].pc = "publish", ![c].wrote = TRUE,
                            ![c].written = findById(products', nextId)]
    /\ UNCHANGED <<users, nextUid, started, subs, events, fnd, srch, lnk, flt>>

(***************************************************************************)
(* ProductService.update                                                   *)
(***************************************************************************)
StartUpdate(c, id, raw) ==
    /\ call[c].pc = "idle"
    /\ started < MaxOps
    /\ started' = started + 1
    /\ LET dto == TransformDto(raw)
           rec == [IdleCall EXCEPT !.op = "update", !.raw = raw, !.dto = dto, !.id = id,
                                   !.goneAtStart = Removed(id)]
           errs == validateUpdateProductDto(dto)
       IN  IF id <= 0
           THEN Throw(c, rec, "id", ValidationException(<<Err("id", "positive")>>))
           ELSE IF errs # <<>>
           THEN Throw(c, rec, "validate", ValidationException(errs))
           ELSE call' = [call EXCEPT ![c] = [rec EXCEPT !.pc = "find"]]
    /\ UNCHANGED <<products, nextId, users, nextUid, subs, events, fnd, srch, lnk, flt>>

\* the existence check resolves
UpdateFind(c) ==
    /\ call[c].op = "update" /\ call[c].pc = "find"
    /\ LET existingProduct == findById(products, call[c].id)
           name == call[c].dto.name
       IN  IF existingProduct = NoRow
           THEN Throw(c, call[c], "exists", NotFoundException)
           ELSE IF ~Falsy(name) /\ name # existingProduct.name
           THEN call' = [call EXCEPT ![c].pc = "search", ![c].existing = existingProduct]
           ELSE call' = [call EXCEPT ![c].pc = "write", ![c].existing = existingProduct]
    /\ UNCHANGED <<products, nextId, users, nextUid, started, subs, events, fnd, srch, lnk, flt>>

\* the uniqueness check of update, were the product's own row to count
UpdateSearchAnyId(c) ==
    /\ call[c].op = "update" /\ call[c].pc = "search"
    /\ IF exactMatch(products, call[c].dto.name) # {}
       THEN Throw(c, call[c], "unique", ValidationException(<<Err("name", "unique")>>))
       ELSE call' = [call EXCEPT ![c].pc = "write"]
    /\ UNCHANGED <<products, nextId, users, nextUid, started, subs, events, fnd, srch, lnk, flt>>

\* the uniqueness check of update: a duplicate is a row with another id
UpdateSearch(c) ==
    /\ call[c].op = "update" /\ call[c].pc = "search"
    /\ IF \E p \in exactMatch(products, call[c].dto.name) : p.id # call[c].id
       THEN Throw(c, call[c], "unique", ValidationException(<<Err("name", "unique")>>))
       ELSE call' = [call EXCEPT ![c].pc = "write"]
    /\ UNCHANGED <<products, nextId, users, nextUid, started, subs, events, fnd, srch, lnk, flt>>

\* the write: Prisma's update throws when the row is gone
UpdateWrite(c) ==
    /\ call[c].op = "update" /\ call[c].pc = "write"
    /\ IF findById(products, call[c].id) # NoRow
       THEN /\ products' = repoUpdate(products, call[c].id, call[c].dto)
            /\ call' = [call EXCEPT ![c].pc = "publish", ![c].wrote = TRUE,
                                    ![c].written = updatedRow(findById(products, call[c].id),
                                                              call[c].dto)]
       ELSE /\ Throw(c, call[c], "write", CaughtError("update"))
            /\ UNCHANGED products
    /\ UNCHANGED <<nextId, users, nextUid, started, subs, events, fnd, srch, lnk, flt>>

(***************************************************************************)
(* ProductService.remove                                                   *)
(***************************************************************************)
StartRemove(c, id) ==
    /\ call[c].pc = "idle"
    /\ started < MaxOps
    /\ started' = started + 1
    /\ LET rec == [IdleCall EXCEPT !.op = "remove", !.id = id, !.goneAtStart = Removed(id)]
       IN  IF id <= 0
           THEN Throw(c, rec, "id", ValidationException(<<Err("id", "positive")>>))
           ELSE call' = [call EXCEPT ![c] = [rec EXCEPT !.pc = "find"]]
    /\ UNCHANGED <<products, nextId, users, nextUid, subs, events, fnd, srch, lnk, flt>>

RemoveFind(c) ==
    /\ call[c].op = "remove" /\ call[c].pc = "find"
    /\ LET existingProduct == findById(products, call[c].id)
       IN  IF existingProduct = NoRow
           THEN Throw(c, call[c], "exists", NotFoundException)
           ELSE call' = [call EXCEPT ![c].pc = "write", ![c].existing = existingProduct]
    /\ UNCHANGED <<products, nextId, users, nextUid, started, subs, events, fnd, srch, lnk, flt>>

\* the delete, were deleting an absent row to succeed
RemoveDeleteMany(c) ==
    /\ call[c].op = "remove" /\ call[c].pc = "write"
    /\ products' = repoDelete(products, call[c].id)
    /\ call' = [call EXCEPT ![c].pc = "publish", ![c].wrote = TRUE]
    /\ UNCHANGED <<nextId, users, nextUid, started, subs, events, fnd, srch, lnk, flt>>

\* the delete: Prisma's delete throws when the row is gone
RemoveDelete(c) ==
    /\ call[c].op = "remove" /\ call[c].pc = "write"
    /\ IF findById(products, call[c].id) # NoRow
       THEN /\ products' = repoDelete(products, call[c].id)
            /\ call' = [call EXCEPT ![c].pc = "publish", ![c].wrote = TRUE]
       ELSE /\ Throw(c, call[c], "write", CaughtError("remove"))
            /\ UNCHANGED products
    /\ UNCHANGED <<nextId, users, nextUid, started, subs, events, fnd, srch, lnk, flt>>

(***************************************************************************)
(* UserService.createUser / updateUser / deleteUser: no validation and no  *)
(* pre-check, the repository write is the first await.                     *)
(***************************************************************************)
StartUser(c, op, id, data) ==
    /\ call[c].pc = "idle"
    /\ started < MaxOps
    /\ started' = started + 1
    /\ call' = [call EXCEPT ![c] = [IdleCall EXCEPT !.op = op, !.id = id, !.data = data,
                                                    !.pc = "write"]]
    /\ UNCHANGED <<products, nextId, users, nextUid, subs, events, fnd, srch, lnk, flt>>

\* the repository write resolves or, for a row that is not there, throws: the
\* catch block answers that like any other error
UserWrite(c) ==
    /\ call[c].op \in UserOps /\ call[c].pc = "write"
    /\ CASE call[c].op = "createUser" ->
              /\ users' = userCreate(users, nextUid, call[c].data)
              /\ nextUid' = nextUid + 1
              /\ call' = [call EXCEPT ![c].pc = "publish", ![c].wrote = TRUE,
                                      ![c].id = nextUid,
                                      ![c].writtenUser = userFindById(users', nextUid)]
         [] call[c].op = "updateUser" /\ userFindById(users, call[c].id) # NoUser ->
              /\ users' = userUpdate(users, call[c].id, call[c].data)
              /\ call' = [call EXCEPT ![c].pc = "publish", ![c].wrote = TRUE,
                                      ![c].writtenUser =
                                          updatedUser(userFindById(users, call[c].id),
                                                      call[c].data)]
              /\ UNCHANGED nextUid
         [] call[c].op = "deleteUser" /\ userFindById(users, call[c].id) # NoUser ->
              /\ users' = userDelete(users, call[c].id)
              /\ call' = [call EXCEPT ![c].pc = "publish", ![c].wrote = TRUE]
              /\ UNCHANGED nextUid
         [] OTHER ->
              /\ Throw(c, call[c], "exists", CaughtError(call[c].op))
              /\ UNCHANGED <<users, nextUid>>
    /\ UNCHANGED <<products, nextId, started, subs, events, fnd, srch, lnk, flt>>

(***************************************************************************)
(* ProductService.findOne and UserService.getUserById: reads.  They write  *)
(* nothing, and are not counted among the started mutations.               *)
(***************************************************************************)
StartFindOne(c, id) ==
    /\ call[c].pc = "idle"
    /\ LET rec == [IdleCall EXCEPT !.op = "findOne", !.id = id, !.goneAtStart = Removed(id)]
       IN  IF id <= 0
           THEN Throw(c, rec, "id", ValidationException(<<Err("id", "positive")>>))
           ELSE call' = [call EXCEPT ![c] = [rec EXCEPT !.pc = "find"]]
    /\ UNCHANGED <<products, nextId, users, nextUid, started, subs, events, fnd, srch, lnk, flt>>

\* findById resolves: null is a NotFoundException, a row is the response's data
FindOneFind(c) ==
    /\ call[c].op = "findOne" /\ call[c].pc = "find"
    /\ LET product == findById(products, call[c].id)
       IN  IF product = NoRow
           THEN Throw(c, call[c], "exists", NotFoundException)
           ELSE call' = [call EXCEPT ![c].pc = "respond", ![c].existing = product]
    /\ UNCHANGED <<products, nextId, users, nextUid, started, subs, events, fnd, srch, lnk, flt>>

\* UserService's Result for a user that is not there
UserNotFound == ErrorResult(404, "NOT_FOUND")

StartGetUser(c, id) ==
    /\ call[c].pc = "idle"
    /\ call' = [call EXCEPT ![c] = [IdleCall EXCEPT !.op = "getUserById", !.id = id,
                                                    !.pc = "find"]]
    /\ UNCHANGED <<products, nextId, users, nextUid, started, subs, events, fnd, srch, lnk, flt>>

GetUserFind(c) ==
    /\ call[c].op = "getUserById" /\ call[c].pc = "find"
    /\ LET user == userFindById(users, call[c].id)
       IN  IF user = NoUser
           THEN Throw(c, call[c], "exists", UserNotFound)
           ELSE call' = [call EXCEPT ![c].pc = "respond", ![c].writtenUser = user]
    /\ UNCHANGED <<products, nextId, users, nextUid, started, subs, events, fnd, srch, lnk, flt>>

(***************************************************************************)
(* The steps every mutation shares.                                        *)
(***************************************************************************)
\* the payload of update, were the row read again when it is published
PayloadFresh(rec) ==
    CASE rec.op = "create" -> rec.written
      [] rec.op = "update" -> findById(products, rec.id)
      [] rec.op \in {"createUser", "updateUser"} -> rec.writtenUser
      [] OTHER -> [id |-> rec.id]

\* the payload an operation publishes: the row its own write returned
Payload(rec) ==
    CASE rec.op \in {"create", "update"} -> rec.written
      [] rec.op \in {"createUser", "updateUser"} -> rec.writtenUser
      [] OTHER -> [id |-> rec.id]

\* publish, were it issued without waiting for the write
PublishEarly(c) ==
    /\ call[c].op # "none" /\ call[c].pc \in {"write", "publish"}
    /\ publish(Topic(call[c].op), Payload(call[c]), c)
    /\ call' = [call EXCEPT ![c].pc = "respond", ![c].published = TRUE]
    /\ UNCHANGED <<products, nextId, users, nextUid, started, fnd, srch, lnk, flt>>

\* await pubSub.publish(topic, payload), after the write has resolved
Publish(c) ==
    /\ call[c].op # "none" /\ call[c].pc = "publish"
    /\ publish(Topic(call[c].op), Payload(call[c]), c)
    /\ call' = [call EXCEPT ![c].pc = "respond", ![c].published = TRUE]
    /\ UNCHANGED <<products, nextId, users, nextUid, started, fnd, srch, lnk, flt>>

\* the links and the envelope (or the Result) are built and the call returns
Respond(c) ==
    /\ call[c].pc = "respond"
    /\ call' = [call EXCEPT ![c].pc = "done",
                            ![c].outcome = SuccessEnvelope(SuccessCode(call[c].op),
                                                           SuccessMessage(call[c].op))]
    /\ UNCHANGED <<products, nextId, users, nextUid, started, subs, events, fnd, srch, lnk, flt>>

\* a failed publish, were the service to undo its write
FaultRollback(c) ==
    /\ call[c].pc \in {"find", "search", "write", "publish"}
    /\ Throw(c, call[c], call[c].pc, CaughtError(call[c].op))
    /\ products' = IF call[c].pc = "publish" /\ call[c].op = "create"
                   THEN repoDelete(products, call[c].written.id)
                   ELSE products
    /\ UNCHANGED <<nextId, users, nextUid, started, subs, events, fnd, srch, lnk, flt>>

\* the awaited repository call or publish rejects with an untyped error (the
\* database is unreachable, a listener throws): the catch block turns it into
\* the operation's generic error, and nothing is undone
Fault(c) ==
    /\ call[c].pc \in {"find", "search", "write", "publish"}
    /\ Throw(c, call[c], call[c].pc, CaughtError(call[c].op))
    /\ UNCHANGED <<products, nextId, users, nextUid, started, subs, events, fnd, srch, lnk, flt>>

\* the request is over and its slot serves the next one
Release(c) ==
    /\ call[c].pc = "done"
    /\ call' = [call EXCEPT ![c] = IdleCall]
    /\ UNCHANGED <<products, nextId, users, nextUid, started, subs, events, fnd, srch, lnk, flt>>

(***************************************************************************)
(* A subscription: the iterator PubsubService.asyncIterator hands out.  It *)
(* registers its listener on the first next(); from then on publish pushes *)
(* every payload of its topic onto it; return() unregisters the listener   *)
(* and drops what was pushed.  inbox holds the positions in the events log *)
(* of the payloads pushed onto the iterator, regAt is the length of the    *)
(* log when the listener was registered.                                   *)
(***************************************************************************)
NoSub == [state |-> "none", topic |-> "", regAt |-> 0, inbox |-> <<>>]

\* subscribeToProductCreated / ...Updated / ...Deleted and the user equivalents
AsyncIterator(s, topic) ==
    /\ subs[s].state = "none"
    /\ subs' = [subs EXCEPT ![s] = [NoSub EXCEPT !.state = "created", !.topic = topic]]
    /\ UNCHANGED <<products, nextId, users, nextUid, call, started, events, fnd, srch, lnk, flt>>

\* the first next() of the iterator
IteratorNext(s) ==
    /\ subs[s].state = "created"
    /\ subs' = [subs EXCEPT ![s].state = "listening", ![s].regAt = Len(events)]
    /\ UNCHANGED <<products, nextId, users, nextUid, call, started, events, fnd, srch, lnk, flt>>

IteratorReturn(s) ==
    /\ subs[s].state \in {"created", "listening"}
    /\ subs' = [subs EXCEPT ![s] = [NoSub EXCEPT !.state = "closed"]]
    /\ UNCHANGED <<products, nextId, users, nextUid, call, started, events, fnd, srch, lnk, flt>>

(***************************************************************************)
(* Optional numbers: <<>> for undefined, <<v>> for the number v.           *)
(***************************************************************************)
NoNum == <<>>
Num(v) == <<v>>

\* x || d : the default replaces undefined and 0
orDefault(x, d) == IF x = NoNum \/ x[1] = 0 THEN d ELSE x[1]

Min(a, b) == IF a <= b THEN a ELSE b
Max(a, b) == IF a >= b THEN a ELSE b

\* Math.ceil(a / b) for a >= 0 and b # 0
ceilDiv(a, b) == IF b > 0 THEN (a + b - 1) \div b ELSE -(a \div (-b))

\* Math.floor(a / b) for a >= 0 and b > 0; for b < 0 as ceilDiv
floorDiv(a, b) == IF b > 0 THEN a \div b ELSE -(a \div (-b))

(***************************************************************************)
(* ProductService.buildQueryOptions                                        *)
(***************************************************************************)
QueryParams(cat, minP, maxP, q, n, sb, so, pg, lim) ==
    [category |-> cat, minPrice |-> minP, maxPrice |-> maxP, search |-> q, name |-> n,
     sortBy |-> sb, sortOrder |-> so, page |-> pg, limit |-> lim]

NoSort == [field |-> "", order |-> ""]

DefaultPage == 1
DefaultLimit == 10
LimitCap == 100

QueryOptions(hf, cat, minP, maxP, q, n, e, srt, pg, lim) ==
    [hasFilters |-> hf, category |-> cat, minPrice |-> minP, maxPrice |-> maxP,
     search |-> q, name |-> n, email |-> e, sort |-> srt, page |-> pg, limit |-> lim]

\* buildQueryOptions, were a price bound tested for truthiness
buildQueryOptionsTruthy(qp) ==
    LET given(x) == x # NoNum /\ x[1] # 0
    IN  QueryOptions(
            ~Falsy(qp.category) \/ given(qp.minPrice) \/ given(qp.maxPrice)
                \/ ~Falsy(qp.search) \/ ~Falsy(qp.name),
            IF ~Falsy(qp.category) THEN qp.category ELSE Undefined,
            IF given(qp.minPrice) THEN qp.minPrice ELSE NoNum,
            IF given(qp.maxPrice) THEN qp.maxPrice ELSE NoNum,
            IF ~Falsy(qp.search) THEN qp.search ELSE Undefined,
            IF ~Falsy(qp.name) THEN qp.name ELSE Undefined,
            Undefined,
            IF qp.sortBy # ""
            THEN [field |-> qp.sortBy,
                  order |-> IF qp.sortOrder # "" THEN qp.sortOrder ELSE "asc"]
            ELSE NoSort,
            Num(orDefault(qp.page, DefaultPage)),
            Num(Min(orDefault(qp.limit, DefaultLimit), LimitCap)))

buildQueryOptions(qp) ==
    QueryOptions(
        ~Falsy(qp.category) \/ qp.minPrice # NoNum \/ qp.maxPrice # NoNum
            \/ ~Falsy(qp.search) \/ ~Falsy(qp.name),
        IF ~Falsy(qp.category) THEN qp.category ELSE Undefined,
        qp.minPrice,
        qp.maxPrice,
        IF ~Falsy(qp.search) THEN qp.search ELSE Undefined,
        IF ~Falsy(qp.name) THEN qp.name ELSE Undefined,
        Undefined,
        IF qp.sortBy # ""
        THEN [field |-> qp.sortBy, order |-> IF qp.sortOrder # "" THEN qp.sortOrder ELSE "asc"]
        ELSE NoSort,
        Num(orDefault(qp.page, DefaultPage)),
        Num(Min(orDefault(qp.limit, DefaultLimit), LimitCap)))

(***************************************************************************)
(* The repositories' findWithFilters: the where clause, the ordered fetch  *)
(* with skip and take, the count, and the pagination metadata.             *)
(***************************************************************************)
\* the where clause of a Product query: every filter that is present must hold
productWhere(o, r) ==
    /\ Falsy(o.category) \/ r.category = o.category
    /\ o.minPrice = NoNum \/ r.price >= o.minPrice[1]
    /\ o.maxPrice = NoNum \/ r.price <= o.maxPrice[1]
    /\ Falsy(o.search) \/ containsInsensitive(r.name, o.search)
                       \/ (IsString(r.description) /\ containsInsensitive(r.description, o.search))
    /\ Falsy(o.name) \/ containsInsensitive(r.name, o.name)

\* the where clause of a User query: where.email is assigned for the email
\* filter and assigned again for the search filter
userWhere(o, r) ==
    IF ~Falsy(o.search) THEN containsInsensitive(r.email, o.search)
    ELSE IF ~Falsy(o.email) THEN containsInsensitive(r.email, o.email)
    ELSE TRUE

where(repo, o, r) == IF repo = "product" THEN productWhere(o, r) ELSE userWhere(o, r)

\* rows by descending id: the default order (most recent first; id desc for users)
RECURSIVE orderDesc(_)
orderDesc(S) ==
    IF S = {} THEN <<>>
    ELSE LET top == CHOOSE r \in S : \A q \in S : q.id <= r.id
         IN  <<top>> \o orderDesc(S \ {top})

Reverse(sq) == [i \in 1..Len(sq) |-> sq[Len(sq) + 1 - i]]

\* Prisma's skip / take on an ordered list; a negative take counts from the end
\* of the list (skip >= 0: a negative skip is rejected before the query runs)
skipTake(sq, skip, take) ==
    IF take >= 0
    THEN SubSeq(sq, skip + 1, Min(skip + take, Len(sq)))
    ELSE Reverse(SubSeq(Reverse(sq), skip + 1, Min(skip - take, Len(sq))))

\* findMany({ where, orderBy, skip, take })
findMany(repo, table, o, skip, take) ==
    skipTake(orderDesc({r \in table : where(repo, o, r)}), skip, take)

\* count({ where })
count(repo, table, o) == Cardinality({r \in table : where(repo, o, r)})

Pagination(cp, tp, ti, ipp, hn, hp) ==
    [currentPage |-> cp, totalPages |-> tp, totalItems |-> ti, itemsPerPage |-> ipp,
     hasNext |-> hn, hasPrev |-> hp]

NoPagination == Pagination(0, 0, 0, 0, FALSE, FALSE)

\* the metadata, were the number of pages rounded down
paginationFloor(page, limit, totalItems) ==
    Pagination(page, floorDiv(totalItems, limit), totalItems, limit,
               page < floorDiv(totalItems, limit), page > 1)

\* the metadata, were hasPrev to hold from the first page on
paginationPrevFromOne(page, limit, totalItems) ==
    Pagination(page, ceilDiv(totalItems, limit), totalItems, limit,
               page < ceilDiv(totalItems, limit), page >= 1)

\* the pagination object ProductRepository.findWithFilters returns
productPagination(page, limit, totalItems) ==
    Pagination(page, ceilDiv(totalItems, limit), totalItems, limit,
               page < ceilDiv(totalItems, limit), page > 1)

\* the pagination object UserRepository.findWithFilters returns
userPagination(page, limit, totalItems) ==
    Pagination(page, ceilDiv(totalItems, limit), totalItems, limit,
               page < ceilDiv(totalItems, limit), page > 1)

\* ResponseBuilderService.buildPaginationMeta
buildPaginationMeta(currentPage, totalItems, itemsPerPage) ==
    Pagination(currentPage, ceilDiv(totalItems, itemsPerPage), totalItems, itemsPerPage,
               currentPage < ceilDiv(totalItems, itemsPerPage), currentPage > 1)

(***************************************************************************)
(* ResponseBuilderService.generateHATEOASLinks.  A URL is the sequence of  *)
(* the parts its template concatenates; an optional field of the context   *)
(* is <<>> when absent and <<v>> when present.                             *)
(***************************************************************************)
LinkContext(base, id, cp, tp, hn, hp) ==
    [baseUrl |-> base, resourceId |-> id, currentPage |-> cp, totalPages |-> tp,
     hasNext |-> hn, hasPrev |-> hp]

\* generatePaginationLinks, were the last link emitted whenever totalPages is given
generatePaginationLinksLast(ctx) ==
    [k \in {"first"}
           \cup (IF ctx.totalPages # NoNum THEN {"last"} ELSE {})
           \cup (IF ctx.hasPrev = <<TRUE>> /\ ctx.currentPage # NoNum /\ ctx.currentPage[1] > 1
                 THEN {"prev"} ELSE {})
           \cup (IF ctx.hasNext = <<TRUE>> /\ ctx.currentPage # NoNum /\ ctx.currentPage[1] # 0
                 THEN {"next"} ELSE {})
     |-> CASE k = "first" -> <<ctx.baseUrl, "?page=", 1>>
           [] k = "last" -> <<ctx.baseUrl, "?page=", ctx.totalPages[1]>>
           [] k = "prev" -> <<ctx.baseUrl, "?page=", ctx.currentPage[1] - 1>>
           [] k = "next" -> <<ctx.baseUrl, "?page=", ctx.currentPage[1] + 1>>]

\* generatePaginationLinks: each link is added under a truthiness test
generatePaginationLinks(ctx) ==
    [k \in {"first"}
           \cup (IF ctx.totalPages # NoNum /\ ctx.totalPages[1] # 0 THEN {"last"} ELSE {})
           \cup (IF ctx.hasPrev = <<TRUE>> /\ ctx.currentPage # NoNum /\ ctx.currentPage[1] # 0
                    /\ ctx.currentPage[1] > 1
                 THEN {"prev"} ELSE {})
           \cup (IF ctx.hasNext = <<TRUE>> /\ ctx.currentPage # NoNum /\ ctx.currentPage[1] # 0
                 THEN {"next"} ELSE {})
     |-> CASE k = "first" -> <<ctx.baseUrl, "?page=", 1>>
           [] k = "last" -> <<ctx.baseUrl, "?page=", ctx.totalPages[1]>>
           [] k = "prev" -> <<ctx.baseUrl, "?page=", ctx.currentPage[1] - 1>>
           [] k = "next" -> <<ctx.baseUrl, "?page=", ctx.currentPage[1] + 1>>]

Link(href, method, rel) == [href |-> href, method |-> method, rel |-> rel]

\* generateHATEOASLinks: pagination is <<>> when the key is not set
generateHATEOASLinks(ctx) ==
    LET given == ctx.resourceId # NoNum /\ ctx.resourceId[1] # 0
        one == <<ctx.baseUrl, "/", IF given THEN ctx.resourceId[1] ELSE 0>>
    IN  [self |-> IF given THEN one ELSE <<ctx.baseUrl>>,
         related |-> IF given
                     THEN [update |-> Link(one, "PUT", "update"),
                           delete |-> Link(one, "DELETE", "delete"),
                           collection |-> Link(<<ctx.baseUrl>>, "GET", "collection")]
                     ELSE [create |-> Link(<<ctx.baseUrl>>, "POST", "create")],
         pagination |-> IF ctx.currentPage # NoNum
                        THEN <<generatePaginationLinks(ctx)>> ELSE <<>>]

\* no links built yet
NoLinks ==
    [built |-> FALSE, context |-> LinkContext("", NoNum, NoNum, NoNum, <<>>, <<>>),
     links |-> <<>>]

\* the response builder is asked for the links of a context
GenerateLinks(ctx) ==
    /\ lnk' = [built |-> TRUE, context |-> ctx, links |-> <<generateHATEOASLinks(ctx)>>]
    /\ UNCHANGED <<products, nextId, users, nextUid, call, started, subs, events, fnd, srch, flt>>

\* the contexts the model builds links for
LinkContexts ==
    { LinkContext(base, id, cp, tp, hn, hp) :
        base \in {"/products", "/api/v1/products"},
        id \in {NoNum, Num(1), Num(2)},
        cp \in {NoNum, Num(0), Num(1), Num(2)},
        tp \in {NoNum, Num(0), Num(1), Num(3)},
        hn \in {<<>>, <<TRUE>>, <<FALSE>>},
        hp \in {<<>>, <<TRUE>>, <<FALSE>>} }

(***************************************************************************)
(* A paginated read.  ProductService.findAll builds the options and calls  *)
(* ProductRepository.findWithFilters; both repositories' findWithFilters   *)
(* can also be called with options directly.  findWithFilters issues the   *)
(* page fetch and the count together (Promise.all) and the database serves *)
(* them in either order, as two separate reads.                            *)
(* seenFetch, seenCount and dirty record what the reads saw and whether a  *)
(* write landed between them; the code does not read them.                 *)
(***************************************************************************)
NoParams == QueryParams(Undefined, NoNum, NoNum, Undefined, Undefined, "", "", NoNum, NoNum)

NoOptions ==
    QueryOptions(FALSE, Undefined, NoNum, NoNum, Undefined, Undefined, Undefined, NoSort,
                 NoNum, NoNum)

IdleFinder ==
    [pc |-> "idle", via |-> "", repo |-> "", qp |-> NoParams, opts |-> NoOptions,
     page |-> 0, limit |-> 0, skip |-> 0,
     fetched |-> FALSE, counted |-> FALSE, dirty |-> FALSE,
     seenFetch |-> {}, seenCount |-> {},
     data |-> <<>>, totalItems |-> 0, pagination |-> NoPagination, links |-> <<>>,
     outcome |-> "pending"]

\* findWithFilters up to its Promise.all: page, limit and skip are fixed
\* (pagination?.page || 1, pagination?.limit || 10, (page - 1) * limit)
findWithFilters(rec, repo, opts) ==
    [rec EXCEPT !.pc = "reading", !.repo = repo, !.opts = opts,
                !.page = orDefault(opts.page, DefaultPage),
                !.limit = orDefault(opts.limit, DefaultLimit),
                !.skip = (orDefault(opts.page, DefaultPage) - 1)
                         * orDefault(opts.limit, DefaultLimit)]

\* ProductService.findAll(queryParams)
StartFindAll(f, qp) ==
    /\ fnd[f].pc = "idle"
    /\ fnd' = [fnd EXCEPT ![f] =
                  findWithFilters([IdleFinder EXCEPT !.via = "service", !.qp = qp],
                                  "product", buildQueryOptions(qp))]
    /\ UNCHANGED <<products, nextId, users, nextUid, call, started, subs, events, srch, lnk, flt>>

\* ProductRepository.findWithFilters(options) / UserRepository.findWithFilters(options)
StartFindWithFilters(f, repo, opts) ==
    /\ fnd[f].pc = "idle"
    /\ fnd' = [fnd EXCEPT ![f] =
                  findWithFilters([IdleFinder EXCEPT !.via = "repository"], repo, opts)]
    /\ UNCHANGED <<products, nextId, users, nextUid, call, started, subs, events, srch, lnk, flt>>

tableOf(repo) == IF repo = "product" THEN products ELSE users

\* the page fetch is served; a negative skip makes the query throw, which
\* rejects the Promise.all
FwfFetch(f) ==
    /\ fnd[f].pc = "reading" /\ ~fnd[f].fetched
    /\ IF fnd[f].skip < 0
       THEN fnd' = [fnd EXCEPT ![f].pc = "done", ![f].outcome = "error"]
       ELSE fnd' = [fnd EXCEPT ![f].fetched = TRUE,
                               ![f].seenFetch = tableOf(fnd[f].repo),
                               ![f].data = findMany(fnd[f].repo, tableOf(fnd[f].repo),
                                                    fnd[f].opts, fnd[f].skip, fnd[f].limit)]
    /\ UNCHANGED <<products, nextId, users, nextUid, call, started, subs, events, srch, lnk, flt>>

\* the count, were it served from the snapshot the fetch read
FwfCountSnapshot(f) ==
    /\ fnd[f].pc = "reading" /\ ~fnd[f].counted
    /\ fnd' = [fnd EXCEPT ![f].counted = TRUE,
                          ![f].seenCount = tableOf(fnd[f].repo),
                          ![f].totalItems =
                              count(fnd[f].repo,
                                    IF fnd[f].fetched THEN fnd[f].seenFetch
                                    ELSE tableOf(fnd[f].repo),
                                    fnd[f].opts)]
    /\ UNCHANGED <<products, nextId, users, nextUid, call, started, subs, events, srch, lnk, flt>>

\* the count is served
FwfCount(f) ==
    /\ fnd[f].pc = "reading" /\ ~fnd[f].counted
    /\ fnd' = [fnd EXCEPT ![f].counted = TRUE,
                          ![f].seenCount = tableOf(fnd[f].repo),
                          ![f].totalItems = count(fnd[f].repo, tableOf(fnd[f].repo),
                                                  fnd[f].opts)]
    /\ UNCHANGED <<products, nextId, users, nextUid, call, started, subs, events, srch, lnk, flt>>

\* the links ProductService.findAll builds from the repository's result; the
\* context also carries queryParams and action, which the builder never reads
findAllLinks(baseUrl, pagination) ==
    generateHATEOASLinks(LinkContext(baseUrl, NoNum, Num(pagination.currentPage),
                                     Num(pagination.totalPages),
                                     <<pagination.hasNext>>, <<pagination.hasPrev>>))

\* both reads have resolved: the metadata is computed and the call returns;
\* findAll then builds the links of its response
FwfReturn(f) ==
    /\ fnd[f].pc = "reading" /\ fnd[f].fetched /\ fnd[f].counted
    /\ LET pagination == IF fnd[f].repo = "product"
                         THEN productPagination(fnd[f].page, fnd[f].limit,
                                                fnd[f].totalItems)
                         ELSE userPagination(fnd[f].page, fnd[f].limit,
                                             fnd[f].totalItems)
       IN  fnd' = [fnd EXCEPT ![f].pc = "done", ![f].outcome = "success",
                              ![f].pagination = pagination,
                              ![f].links = IF fnd[f].via = "service"
                                           THEN <<findAllLinks("http://127.0.0.1", pagination)>>
                                           ELSE <<>>]
    /\ UNCHANGED <<products, nextId, users, nextUid, call, started, subs, events, srch, lnk, flt>>

FinderRelease(f) ==
    /\ fnd[f].pc = "done"
    /\ fnd' = [fnd EXCEPT ![f] = IdleFinder]
    /\ UNCHANGED <<products, nextId, users, nextUid, call, started, subs, events, srch, lnk, flt>>

\* a read of the given repository is between its two reads
MidRead(rec, repo) == rec.pc = "reading" /\ rec.repo = repo /\ rec.fetched # rec.counted

\* a write to a table marks the reads it lands in the middle of
Dirtied(repo) ==
    fnd' = [f \in Finders |->
              IF MidRead(fnd[f], repo) THEN [fnd[f] EXCEPT !.dirty = TRUE] ELSE fnd[f]]

(***************************************************************************)
(* Writes of other requests, at the repository: create and delete.         *)
(***************************************************************************)
RowDatas ==
    { [name |-> <<"c","d">>, description |-> <<"a","b">>, price |-> 1500,
       category |-> <<"b","k">>] }

RowsWritten == (nextId - 1) + (nextUid - 1)

\* ProductRepository.create
RepoCreate(data) ==
    /\ RowsWritten < MaxRows + 1
    /\ products' = repoCreate(products, nextId, data)
    /\ nextId' = nextId + 1
    /\ Dirtied("product")
    /\ UNCHANGED <<users, nextUid, call, started, subs, events, srch, lnk, flt>>

\* ProductRepository.delete
RepoDelete(id) ==
    /\ findById(products, id) # NoRow
    /\ products' = repoDelete(products, id)
    /\ Dirtied("product")
    /\ UNCHANGED <<nextId, users, nextUid, call, started, subs, events, srch, lnk, flt>>

\* UserRepository.create
UserRepoCreate(data) ==
    /\ RowsWritten < MaxRows + 1
    /\ users' = userCreate(users, nextUid, data)
    /\ nextUid' = nextUid + 1
    /\ Dirtied("user")
    /\ UNCHANGED <<products, nextId, call, started, subs, events, srch, lnk, flt>>

\* UserRepository.delete
UserRepoDelete(id) ==
    /\ userFindById(users, id) # NoUser
    /\ users' = userDelete(users, id)
    /\ Dirtied("user")
    /\ UNCHANGED <<products, nextId, nextUid, call, started, subs, events, srch, lnk, flt>>

(***************************************************************************)
(* The repositories' countTotal(filters): one count query, whose where     *)
(* clause countTotal builds itself.                                        *)
(***************************************************************************)
\* countTotal, were it to leave the search filter out
countTotalNoSearch(repo, table, o) ==
    IF ~o.hasFilters THEN Cardinality(table)
    ELSE IF repo = "product"
    THEN Cardinality({r \in table :
            /\ Falsy(o.category) \/ r.category = o.category
            /\ o.minPrice = NoNum \/ r.price >= o.minPrice[1]
            /\ o.maxPrice = NoNum \/ r.price <= o.maxPrice[1]
            /\ Falsy(o.name) \/ containsInsensitive(r.name, o.name)})
    ELSE Cardinality({r \in table :
            Falsy(o.email) \/ containsInsensitive(r.email, o.email)})

\* ProductRepository.countTotal / UserRepository.countTotal
countTotal(repo, table, o) ==
    IF ~o.hasFilters THEN Cardinality(table)
    ELSE IF repo = "product"
    THEN Cardinality({r \in table :
            /\ Falsy(o.category) \/ r.category = o.category
            /\ o.minPrice = NoNum \/ r.price >= o.minPrice[1]
            /\ o.maxPrice = NoNum \/ r.price <= o.maxPrice[1]
            /\ Falsy(o.search)
               \/ containsInsensitive(r.name, o.search)
               \/ (IsString(r.description) /\ containsInsensitive(r.description, o.search))
            /\ Falsy(o.name) \/ containsInsensitive(r.name, o.name)})
    ELSE Cardinality({r \in table :
            IF ~Falsy(o.search) THEN containsInsensitive(r.email, o.search)
            ELSE IF ~Falsy(o.email) THEN containsInsensitive(r.email, o.email)
            ELSE TRUE})

\* a countTotal call: the count query is served and the call returns
CountTotal(f, repo, o) ==
    /\ fnd[f].pc = "idle"
    /\ fnd' = [fnd EXCEPT ![f] =
                  [IdleFinder EXCEPT !.pc = "done", !.via = "countTotal", !.repo = repo,
                                     !.opts = o, !.counted = TRUE,
                                     !.seenCount = tableOf(repo),
                                     !.totalItems = countTotal(repo, tableOf(repo), o),
                                     !.outcome = "success"]]
    /\ UNCHANGED <<products, nextId, users, nextUid, call, started, subs, events, srch, lnk, flt>>

\* the filter sets countTotal is called with
CountFilters(repo) ==
    {NoOptions} \cup
    IF repo = "product"
    THEN { QueryOptions(TRUE, cat, minP, maxP, q, n, Undefined, NoSort, NoNum, NoNum) :
             cat \in {Undefined, <<>>, <<"b","k">>, <<"t","y">>},
             minP \in {NoNum, Num(0), Num(1000)},
             maxP \in {NoNum, Num(1000)},
             q \in {Undefined, <<"C">>},
             n \in {Undefined, <<"d">>} }
    ELSE { QueryOptions(TRUE, Undefined, NoNum, NoNum, q, Undefined, e, NoSort, NoNum, NoNum) :
             q \in {Undefined, <<"y">>}, e \in {Undefined, <<"X">>} }

(***************************************************************************)
(* The repositories' search(query, fields).                                *)
(***************************************************************************)
\* the fields search accepts: the field === '...' tests of the forEach
SearchableFields(repo) ==
    IF repo = "product" THEN {"name", "description", "category"} ELSE {"email"}

\* searchConditions: one condition per requested field that passes the test
searchConditions(repo, fields) ==
    SelectSeq(fields, LAMBDA fl : fl \in SearchableFields(repo))

\* the column a condition reads
fieldOf(r, fl) ==
    CASE fl = "name" -> r.name
      [] fl = "description" -> r.description
      [] fl = "category" -> r.category
      [] fl = "email" -> r.email

\* one condition: { [field]: { contains: query, mode: 'insensitive' } }
conditionHolds(r, fl, query) ==
    IsString(fieldOf(r, fl)) /\ containsInsensitive(fieldOf(r, fl), query)

\* a search that tries every searchable column, whatever was requested
searchEveryField(repo, table, query, fields) ==
    orderDesc({r \in table :
                 \E fl \in SearchableFields(repo) : conditionHolds(r, fl, query)})

\* findMany({ where: { OR: searchConditions }, orderBy: desc })
search(repo, table, query, fields) ==
    LET conds == searchConditions(repo, fields)
    IN  orderDesc({r \in table :
                     \E k \in 1..Len(conds) : conditionHolds(r, conds[k], query)})

\* a search call: at "query" it is suspended at the awaited findMany
IdleSearch ==
    [pc |-> "idle", repo |-> "", query |-> <<>>, fields |-> <<>>,
     queried |-> FALSE, seen |-> {}, result |-> <<>>]

\* search is called: with no condition it returns [] at once
StartSearch(f, repo, query, fields) ==
    /\ srch[f].pc = "idle"
    /\ srch' = [srch EXCEPT ![f] =
                  [IdleSearch EXCEPT !.repo = repo, !.query = query, !.fields = fields,
                                     !.pc = IF Len(searchConditions(repo, fields)) = 0
                                            THEN "done" ELSE "query"]]
    /\ UNCHANGED <<products, nextId, users, nextUid, call, started, subs, events, fnd, lnk, flt>>

\* the database runs the query
SearchQuery(f) ==
    /\ srch[f].pc = "query"
    /\ srch' = [srch EXCEPT ![f].pc = "done",
                            ![f].queried = TRUE,
                            ![f].seen = tableOf(srch[f].repo),
                            ![f].result = search(srch[f].repo, tableOf(srch[f].repo),
                                                 srch[f].query, srch[f].fields)]
    /\ UNCHANGED <<products, nextId, users, nextUid, call, started, subs, events, fnd, lnk, flt>>

\* the caller has taken the result
SearchRelease(f) ==
    /\ srch[f].pc = "done"
    /\ srch' = [srch EXCEPT ![f] = IdleSearch]
    /\ UNCHANGED <<products, nextId, users, nextUid, call, started, subs, events, fnd, lnk, flt>>

\* the queries and field lists the model searches with
SearchQueries == { <<"B">>, <<"a","b">>, <<"z">> }

SearchFieldLists ==
    { <<>>, <<"name">>, <<"description">>, <<"category">>, <<"email">>, <<"id">>,
      <<"name", "description">>, <<"price", "name">>, <<"id", "email">> }

(***************************************************************************)
(* The list reads: ProductService.search, findByCategory, findByPriceRange *)
(* and getCategories, and UserService.getAllUsers.  Each validates its     *)
(* arguments, awaits one repository read and returns; the links and the    *)
(* envelope are built without another await.                               *)
(***************************************************************************)
\* the message of an empty result
EmptyMessage(op) ==
    CASE op = "search" -> "No products found matching the search criteria"
      [] op = "findByCategory" -> "No products found in this category"
      [] op = "findByPriceRange" -> "No products found in this price range"
      [] OTHER -> SuccessMessage(op)

\* the call arrives: its arguments are validated before anything is awaited
StartList(c, op, args) ==
    /\ call[c].pc = "idle"
    /\ LET rec == [IdleCall EXCEPT !.op = op, !.args = args]
           errs ==
             CASE op = "search" ->
                    IF Falsy(args[1]) \/ trim(args[1]) = <<>>
                    THEN <<Err("query", "required")>> ELSE <<>>
               [] op = "findByCategory" ->
                    IF Falsy(args[1]) \/ trim(args[1]) = <<>>
                    THEN <<Err("category", "required")>> ELSE <<>>
               [] op = "findByPriceRange" ->
                    IF args[1] < 0 \/ args[2] < 0
                    THEN <<Err("minPrice", "min"), Err("maxPrice", "min")>>
                    ELSE IF args[1] > args[2]
                    THEN <<Err("minPrice", "comparison")>> ELSE <<>>
               [] OTHER -> <<>>
       IN  IF errs # <<>>
           THEN Throw(c, rec, "validate", ValidationException(errs))
           ELSE call' = [call EXCEPT ![c] = [rec EXCEPT !.pc = "find"]]
    /\ UNCHANGED <<products, nextId, users, nextUid, started, subs, events, fnd, srch, lnk, flt>>

\* the repository read resolves and the call returns.  Where the query leaves
\* the order of rows open (equal prices, no orderBy), any order is possible;
\* the categories come in any order too, the model's strings having no
\* alphabetical order
ListFetch(c) ==
    /\ call[c].pc = "find"
    /\ call[c].op \in (ProductReads \cup UserReads) \ {"findOne", "getUserById"}
    /\ LET op == call[c].op
           args == call[c].args
           orders(S, ok(_, _)) ==
               { sq \in [1..Cardinality(S) -> S] :
                   \A i \in DOMAIN sq : \A k \in DOMAIN sq :
                       i < k => (sq[i] # sq[k] /\ ok(sq[i], sq[k])) }
           any(a, b) == TRUE
           byPrice(a, b) == a.price <= b.price
           results ==
             CASE op = "search" ->
                    { search("product", products, trim(args[1]),
                             IF args[2] = <<>> THEN <<"name", "description", "category">>
                             ELSE args[2]) }
               [] op = "findByCategory" ->
                    { orderDesc({r \in products : r.category = trim(args[1])}) }
               [] op = "findByPriceRange" ->
                    orders({r \in products : r.price >= args[1] /\ r.price <= args[2]},
                           byPrice)
               [] op = "getCategories" -> orders({r.category : r \in products}, any)
               [] OTHER -> orders(users, any)
       IN  \E result \in results :
              call' = [call EXCEPT ![c].pc = "done", ![c].result = result,
                                   ![c].outcome =
                                       SuccessEnvelope(200, IF result = <<>>
                                                            THEN EmptyMessage(op)
                                                            ELSE SuccessMessage(op))]
    /\ UNCHANGED <<products, nextId, users, nextUid, started, subs, events, fnd, srch, lnk, flt>>

\* the arguments the list reads are called with
ListArgs(op) ==
    CASE op = "search" ->
           { <<q, fl>> : q \in {Undefined, <<>>, <<" ">>, <<"B">>, <<"c"," ">>},
                         fl \in {<<>>, <<"name">>} }
      [] op = "findByCategory" ->
           { <<ct>> : ct \in {Undefined, <<" ">>, <<"b","k">>, <<"t","y">>} }
      [] op = "findByPriceRange" ->
           { <<lo, hi>> : lo \in {-1, 0, 1000}, hi \in {-1, 500, 2000} }
      [] OTHER -> { <<>> }

(***************************************************************************)
(* The paginated reads the model issues.                                   *)
(***************************************************************************)
PageInputs == {NoNum, Num(-1), Num(0), Num(1), Num(2)}
LimitInputs == {NoNum, Num(-1), Num(0), Num(1), Num(2), Num(101)}

\* page and limit as the request carries them: every page with limit 1 and 2,
\* every limit with page 1, and both absent
PageLimitInputs ==
    {<<pg, lim>> : pg \in PageInputs, lim \in {Num(1), Num(2)}}
    \cup {<<Num(1), lim>> : lim \in LimitInputs}
    \cup {<<NoNum, NoNum>>}

FilterInputs == { <<Undefined, NoNum>>, <<<<"b","k">>, Num(1000)>> }

FindAllParams ==
    { QueryParams(fl[1], fl[2], NoNum, Undefined, Undefined, "", "", pl[1], pl[2]) :
        fl \in FilterInputs, pl \in PageLimitInputs }

ProductOptions ==
    { NoOptions,
      QueryOptions(TRUE, Undefined, NoNum, NoNum, <<"A","B">>, Undefined, Undefined, NoSort,
                   Num(2), Num(1)) }

UserOptions ==
    { NoOptions,
      QueryOptions(TRUE, Undefined, NoNum, NoNum, Undefined, Undefined, <<"X">>, NoSort,
                   Num(1), Num(1)),
      QueryOptions(TRUE, Undefined, NoNum, NoNum, <<"x">>, Undefined, <<"y">>, NoSort,
                   Num(2), Num(1)) }

UserDatas == { UserData(<<"x">>, <<"p">>), UserData(<<"x","y">>, <<"p">>) }

(***************************************************************************)
(* The filter functions of the productCreated and productUpdated           *)
(* subscriptions (ProductResolver).  A field of the filter argument is      *)
(* undefined (key absent), null, or a value; both filter functions have    *)
(* the same body.                                                          *)
(***************************************************************************)
Field(kind, v) == [kind |-> kind, v |-> v]

\* ProductSubscriptionFilter; NoFilter is the absent (or null) argument
SubscriptionFilter(cats, minP, maxP, uid) ==
    <<[categories |-> cats, minPrice |-> minP, maxPrice |-> maxP, userId |-> uid]>>

NoFilter == <<>>

\* the number a comparison with < or > makes of the field (null becomes 0)
ToNumber(fld) == IF fld.kind = "null" THEN 0 ELSE fld.v

\* the filter function, were a bound tested for being a value
filterBoundsGiven(product, filter) ==
    \/ filter = NoFilter
    \/ LET fl == filter[1]
       IN  /\ (fl.categories.kind = "value" /\ Len(fl.categories.v) > 0)
                 => \E i \in 1..Len(fl.categories.v) : fl.categories.v[i] = product.category
           /\ ~(fl.minPrice.kind = "value" /\ product.price < fl.minPrice.v)
           /\ ~(fl.maxPrice.kind = "value" /\ product.price > fl.maxPrice.v)

\* filter: (payload, variables) => boolean
subscriptionFilter(product, filter) ==
    \/ filter = NoFilter
    \/ LET fl == filter[1]
       IN  /\ (fl.categories.kind = "value" /\ Len(fl.categories.v) > 0)
                 => \E i \in 1..Len(fl.categories.v) : fl.categories.v[i] = product.category
           /\ ~(fl.minPrice.kind # "undefined" /\ product.price < ToNumber(fl.minPrice))
           /\ ~(fl.maxPrice.kind # "undefined" /\ product.price > ToNumber(fl.maxPrice))

NoDecision == [decided |-> FALSE, topic |-> "", product |-> NoRow, filter |-> NoFilter,
               delivered |-> FALSE]

\* an event of the topic reaches a subscription, whose filter function decides
FilterEvent(topic, product, filter) ==
    /\ flt' = [decided |-> TRUE, topic |-> topic, product |-> product, filter |-> filter,
               delivered |-> subscriptionFilter(product, filter)]
    /\ UNCHANGED <<products, nextId, users, nextUid, call, started, subs, events, fnd, srch, lnk>>

\* the products of the events and the filter arguments of the subscribers
EventProducts ==
    { Row(1, <<"a","b">>, Null, p, c) : p \in {0, 500, 1500}, c \in {<<"b","k">>, <<"t","y">>} }

SubscriptionFilters ==
    {NoFilter} \cup
    { SubscriptionFilter(cats, minP, maxP, uid) :
        cats \in {Field("undefined", <<>>), Field("null", <<>>), Field("value", <<>>),
                  Field("value", << <<"b","k">> >>),
                  Field("value", << <<"t","y">>, <<"b","k">> >>)},
        minP \in {Field("undefined", 0), Field("null", 0), Field("value", 0),
                  Field("value", 1000)},
        maxP \in {Field("undefined", 0), Field("null", 0), Field("value", 0),
                  Field("value", 1000)},
        uid \in {Field("undefined", ""), Field("value", "u1")} }

\* the filter and sort parameters of the list requests: absent, empty and
\* given strings, absent, zero and positive price bounds
FilterSortParams ==
    { QueryParams(cat, minP, maxP, q, n, sb, so, Num(1), Num(2)) :
        cat \in {Undefined, <<>>, <<"b","k">>},
        minP \in {NoNum, Num(0), Num(1000)},
        maxP \in {NoNum, Num(0)},
        q \in {Undefined, <<>>, <<"A">>},
        n \in {Undefined, <<"d">>},
        sb \in {"", "price"},
        so \in {"", "desc"} }

(***************************************************************************)
(* The specifications.                                                     *)
(***************************************************************************)
\* the tables a run starts from: empty, or holding one row
SeedTables == { {}, {Row(1, <<"a","b">>, Null, 500, <<"b","k">>)} }

Init ==
    /\ products \in SeedTables
    /\ nextId = Cardinality(products) + 1
    /\ users = {}
    /\ nextUid = 1
    /\ call = [c \in Calls |-> IdleCall]
    /\ started = 0
    /\ subs = [s \in Subs |-> NoSub]
    /\ events = <<>>
    /\ fnd = [f \in Finders |-> IdleFinder]
    /\ srch = [f \in Finders |-> IdleSearch]
    /\ lnk = NoLinks
    /\ flt = NoDecision

\* a request arrives
StartStep(c) ==
    \/ \E raw \in RawCreateDtos : StartCreate(c, raw)
    \/ \E id \in ProductIds, raw \in RawUpdateDtos : StartUpdate(c, id, raw)
    \/ \E id \in ProductIds : StartRemove(c, id)
    \/ \E data \in CreateUserDatas : StartUser(c, "createUser", 0, data)
    \/ \E id \in UserIds, data \in UpdateUserDatas : StartUser(c, "updateUser", id, data)
    \/ \E id \in UserIds : StartUser(c, "deleteUser", id, UserData(Undefined, Undefined))

\* a request in flight resumes at the await it is suspended at
RunStep(c) ==
    \/ CreateSearch(c)
    \/ CreateInsert(c)
    \/ UpdateFind(c)
    \/ UpdateSearch(c)
    \/ UpdateWrite(c)
    \/ RemoveFind(c)
    \/ RemoveDelete(c)
    \/ UserWrite(c)
    \/ Publish(c)
    \/ Respond(c)
    \/ Fault(c)
    \/ Release(c)

\* the service under concurrent requests
Next == \E c \in Calls : StartStep(c) \/ RunStep(c)

Spec == Init /\ [][Next]_vars

\* no request is in flight, and the last one has been answered
Quiet == \A c \in Calls : call[c].pc = "idle"

\* the service when every request runs to completion before the next arrives
NextSeq == \E c \in Calls : (Quiet /\ StartStep(c)) \/ RunStep(c)

SpecSeq == Init /\ [][NextSeq]_vars

\* one request slot and the subscribers of the bus
NextBus ==
    \/ StartStep(1) \/ RunStep(1)
    \/ \E s \in Subs, t \in SubTopics : AsyncIterator(s, t)
    \/ \E s \in Subs : IteratorNext(s)
    \/ \E s \in Subs : IteratorReturn(s)

SpecBus == Init /\ [][NextBus]_vars

\* the paginated reads, with other requests writing to the tables meanwhile
NextFind ==
    \/ \E f \in Finders, qp \in FindAllParams : StartFindAll(f, qp)
    \/ \E f \in Finders, o \in ProductOptions : StartFindWithFilters(f, "product", o)
    \/ \E f \in Finders, o \in UserOptions : StartFindWithFilters(f, "user", o)
    \/ \E f \in Finders : FwfFetch(f)
    \/ \E f \in Finders : FwfCount(f)
    \/ \E f \in Finders : FwfReturn(f)
    \/ \E f \in Finders : FinderRelease(f)
    \/ \E data \in RowDatas : RepoCreate(data)
    \/ \E id \in 1..(MaxRows + 1) : RepoDelete(id)
    \/ \E data \in UserDatas : UserRepoCreate(data)
    \/ \E id \in 1..(MaxRows + 1) : UserRepoDelete(id)

SpecFind == Init /\ [][NextFind]_vars

\* the repositories' search, with other requests writing to the tables meanwhile
NextSearch ==
    \/ \E f \in Finders, repo \in {"product", "user"},
          q \in SearchQueries, fields \in SearchFieldLists : StartSearch(f, repo, q, fields)
    \/ \E f \in Finders : SearchQuery(f)
    \/ \E f \in Finders : SearchRelease(f)
    \/ \E data \in RowDatas : RepoCreate(data)
    \/ \E id \in 1..(MaxRows + 1) : RepoDelete(id)
    \/ \E data \in UserDatas : UserRepoCreate(data)
    \/ \E id \in 1..(MaxRows + 1) : UserRepoDelete(id)

SpecSearch == Init /\ [][NextSearch]_vars

\* a read arrives
ReadStart(c) ==
    \/ \E id \in ProductIds : StartFindOne(c, id)
    \/ \E id \in UserIds : StartGetUser(c, id)

\* a read in flight resumes at its await
ReadStep(c) ==
    \/ FindOneFind(c)
    \/ GetUserFind(c)

\* the mutations, one after the other in slot 1, with the reads of slot 2
\* interleaved at every await
NextCrud ==
    \/ StartStep(1) \/ RunStep(1)
    \/ \E id \in ProductIds, raw \in PartialUpdateDtos : StartUpdate(1, id, raw)
    \/ \E raw \in EdgePriceDtos : StartCreate(1, raw)
    \/ ReadStart(2) \/ ReadStep(2) \/ RunStep(2)

SpecCrud == Init /\ [][NextCrud]_vars

\* the response builder, asked for links one context after the other
SpecLinks == Init /\ [][\E ctx \in LinkContexts : GenerateLinks(ctx)]_vars

\* events reaching filtered subscriptions, one after the other
SpecFilter ==
    Init /\ [][\E topic \in {"productCreated", "productUpdated"},
                  product \in EventProducts, filter \in SubscriptionFilters :
                  FilterEvent(topic, product, filter)]_vars

\* concurrent removes, no repository call failing for any other reason than
\* the row being gone
SpecRemove ==
    Init /\ [][\E c \in Calls :
                 \/ \E id \in ProductIds : StartRemove(c, id)
                 \/ RemoveFind(c) \/ RemoveDelete(c) \/ Publish(c) \/ Respond(c)
                 \/ Release(c)]_vars

\* countTotal calls, with other requests writing to the tables in between
SpecCount ==
    Init /\ [][\/ \E f \in Finders, repo \in {"product", "user"} :
                    \E o \in CountFilters(repo) : CountTotal(f, repo, o)
               \/ \E f \in Finders : FinderRelease(f)
               \/ \E data \in RowDatas : RepoCreate(data)
               \/ \E id \in 1..(MaxRows + 1) : RepoDelete(id)
               \/ \E data \in UserDatas : UserRepoCreate(data)
               \/ \E id \in 1..(MaxRows + 1) : UserRepoDelete(id)]_vars

\* list requests over every combination of filter and sort parameters
SpecOptions ==
    Init /\ [][\E f \in Finders :
                 \/ \E qp \in FilterSortParams : StartFindAll(f, qp)
                 \/ FwfFetch(f) \/ FwfCount(f) \/ FwfReturn(f) \/ FinderRelease(f)]_vars

\* the reads of both services, one at a time, with other requests writing to
\* the tables meanwhile and the awaited repository reads failing at will
SpecReads ==
    Init /\ [][\/ /\ \A f \in Finders : fnd[f].pc = "idle"
                  /\ \/ \E id \in ProductIds : StartFindOne(1, id)
                     \/ \E id \in {0, 1} : StartGetUser(1, id)
                     \/ \E op \in (ProductReads \cup UserReads) \ {"findOne", "getUserById"} :
                           \E args \in ListArgs(op) : StartList(1, op, args)
               \/ ReadStep(1) \/ ListFetch(1) \/ Respond(1) \/ Fault(1) \/ Release(1)
               \/ \E f \in Finders, qp \in FindAllParams :
                     call[1].pc = "idle" /\ qp.limit = Num(1) /\ StartFindAll(f, qp)
               \/ \E f \in Finders :
                     FwfFetch(f) \/ FwfCount(f) \/ FwfReturn(f) \/ FinderRelease(f)
               \/ \E data \in RowDatas : RepoCreate(data)
               \/ \E id \in 1..(MaxRows + 1) : RepoDelete(id)
               \/ \E data \in UserDatas : UserRepoCreate(data)
               \/ \E id \in 1..(MaxRows + 1) : UserRepoDelete(id)]_vars

(***************************************************************************)
(* The claims.                                                             *)
(***************************************************************************)
PrecheckSteps == {"validate", "id", "unique", "exists"}

\* an awaited call rejected with an untyped error
Faulted(rec) == rec.failedAt \in {"find", "search", "write", "publish"}

\* C1: in ProductService.create, update and remove, a call whose validation or
\* pre-check step fails (invalid DTO, id <= 0, a duplicate name found by the
\* uniqueness check, no row found by the existence check) ends with an error
\* and has performed no repository write and no publish.
C1_PrecheckFailureAborts ==
    \A c \in Calls :
        /\ (call[c].op \in ProductOps /\ call[c].failedAt \in PrecheckSteps)
              => /\ call[c].pc = "done"
                 /\ call[c].outcome.kind \in {"ValidationException", "NotFoundException"}
                 /\ ~call[c].wrote
                 /\ ~call[c].published
        /\ (call[c].op = "create" /\ validateCreateProductDto(call[c].dto) # <<>>)
              => call[c].failedAt = "validate"
        /\ (call[c].op = "update" /\ call[c].id > 0
                /\ validateUpdateProductDto(call[c].dto) # <<>>)
              => call[c].failedAt = "validate"
        /\ (call[c].op \in {"update", "remove"} /\ call[c].id <= 0)
              => call[c].failedAt = "id"

\* a create was rejected as a duplicate, and a remove as not found
C1_Witness ==
    /\ \E c \in Calls : /\ call[c].op = "create" /\ call[c].failedAt = "unique"
                        /\ call[c].outcome.kind = "ValidationException"
    /\ \E c \in Calls : /\ call[c].op = "remove" /\ call[c].failedAt = "exists"
                        /\ call[c].outcome.kind = "NotFoundException"

\* C2: every event published on a product or user topic was published by a
\* call whose repository write of that entity had already resolved, and before
\* that call returned; a call that returns success has published.
C2_PublishAfterWrite ==
    /\ \A i \in 1..Len(events) :
          /\ events[i].wrote
          /\ events[i].payload.id = events[i].writtenId
          /\ ~events[i].returned
    /\ \A c \in Calls :
          /\ call[c].published => call[c].wrote
          /\ (call[c].op # "none" /\ call[c].outcome.kind = "success") => call[c].published

\* a product event and a user event have been published
C2_Witness ==
    /\ \E i \in 1..Len(events) : events[i].topic = "productUpdated"
    /\ \E i \in 1..Len(events) : events[i].topic = "userCreated"

C4_RacingCreatesBothInsert ==
    \A c \in Calls : \A d \in Calls \ {c} :
        (/\ call[c].op = "create" /\ call[d].op = "create"
         /\ call[c].raced /\ call[d].raced
         /\ call[c].pc = "done" /\ call[d].pc = "done"
         /\ ~Faulted(call[c]) /\ ~Faulted(call[d]))
        => /\ call[c].outcome.kind = "success" /\ call[d].outcome.kind = "success"
           /\ call[c].written.id # call[d].written.id
           /\ toLowerCase(call[c].written.name) = toLowerCase(call[d].written.name)
           /\ {call[c].written, call[d].written} \subseteq products

\* both racing creates have returned success and both rows are in the store
C4_Witness ==
    \E c \in Calls : \E d \in Calls \ {c} :
        /\ call[c].raced /\ call[d].raced
        /\ call[c].outcome.kind = "success" /\ call[d].outcome.kind = "success"
        /\ \E r \in products : \E q \in products :
              r.id # q.id /\ toLowerCase(r.name) = toLowerCase(q.name)

\* C5: when publish fails after the write of create, update or remove has
\* succeeded, the step that handles the failure leaves the store as it is (no
\* rollback, no compensating write) and the caller gets the generic
\* BadRequestException.
C5_NoRollback ==
    [][\A c \in Calls :
          (call[c].op \in ProductOps /\ call[c].pc = "publish" /\ call'[c].pc = "done")
          => /\ call[c].wrote
             /\ products' = products
             /\ call'[c].outcome = BadRequestException(FailedMessage(call[c].op))]_vars

\* a create whose publish failed has ended, and its row is in the store
C5_Witness ==
    \E c \in Calls :
        /\ call[c].op = "create" /\ call[c].pc = "done" /\ call[c].failedAt = "publish"
        /\ call[c].outcome.kind = "BadRequestException"
        /\ call[c].written \in products

\* the number of times position i of the log was pushed onto iterator s
Pushed(s, i) == Cardinality({k \in 1..Len(subs[s].inbox) : subs[s].inbox[k] = i})

\* C6: a payload published on a topic is pushed exactly once onto every
\* iterator of that topic whose listener was registered before the publish,
\* and never onto an iterator registered afterwards or one of another topic.
C6_DeliveryToRegistered ==
    \A s \in Subs :
        /\ subs[s].state # "listening" => subs[s].inbox = <<>>
        /\ subs[s].state = "listening" =>
              \A i \in 1..Len(events) :
                  Pushed(s, i) = IF events[i].topic = subs[s].topic /\ i > subs[s].regAt
                                 THEN 1 ELSE 0

\* an iterator registered between two publishes on its topic holds the second
\* payload only
C6_Witness ==
    \E s \in Subs :
        /\ subs[s].state = "listening" /\ subs[s].regAt = 1
        /\ Len(events) = 2
        /\ events[1].topic = subs[s].topic /\ events[2].topic = subs[s].topic
        /\ subs[s].inbox = <<2>>

Finished(rec) == rec.pc = "done" /\ rec.outcome = "success"

\* C7: the page of a findWithFilters result is read from the table as it was
\* at the fetch and totalItems from the table as it was at the count, two
\* reads that a write can separate; the result then matches no single state.
C7_TwoReads ==
    \A f \in Finders :
        /\ Finished(fnd[f]) =>
              /\ fnd[f].data = findMany(fnd[f].repo, fnd[f].seenFetch, fnd[f].opts,
                                        fnd[f].skip, fnd[f].limit)
              /\ fnd[f].totalItems = count(fnd[f].repo, fnd[f].seenCount, fnd[f].opts)
        /\ (fnd[f].fetched /\ fnd[f].counted /\ fnd[f].seenFetch # fnd[f].seenCount)
              => fnd[f].dirty

\* a delete landed between the fetch and the count: the page holds more
\* matching rows than totalItems reports
C7_Witness ==
    \E f \in Finders :
        /\ Finished(fnd[f]) /\ fnd[f].dirty
        /\ fnd[f].page >= 1 /\ fnd[f].limit >= 1
        /\ Len(fnd[f].data) > fnd[f].totalItems

\* C8: for a findWithFilters result of either repository with limit in 1..100
\* and page >= 1: currentPage = page, itemsPerPage = limit, totalPages is the
\* least number of pages of limit items that hold totalItems, hasNext =
\* (currentPage < totalPages), hasPrev = (currentPage > 1); and
\* buildPaginationMeta computes the same values.
C8_PaginationMeta ==
    \A f \in Finders :
        (Finished(fnd[f]) /\ fnd[f].page >= 1 /\ fnd[f].limit \in 1..LimitCap) =>
            LET m == fnd[f].pagination
            IN  /\ m.currentPage = fnd[f].page
                /\ m.itemsPerPage = fnd[f].limit
                /\ m.totalItems = fnd[f].totalItems
                /\ m.totalPages * fnd[f].limit >= m.totalItems
                /\ (m.totalPages - 1) * fnd[f].limit < m.totalItems \/ m.totalPages = 0
                /\ m.totalPages >= 0
                /\ m.hasNext = (m.currentPage < m.totalPages)
                /\ m.hasPrev = (m.currentPage > 1)
                /\ buildPaginationMeta(fnd[f].page, fnd[f].totalItems, fnd[f].limit) = m

\* three rows in pages of two: two pages, and the first has a next
C8_Witness ==
    \E f \in Finders :
        /\ Finished(fnd[f]) /\ fnd[f].repo = "product"
        /\ fnd[f].pagination = Pagination(1, 2, 3, 2, TRUE, FALSE)

\* C9: when no write interleaves with a findWithFilters call, the returned
\* page holds exactly min(limit, max(0, totalItems - (page - 1) * limit))
\* rows, each of which satisfies the filter.
C9_PageSize ==
    \A f \in Finders :
        (Finished(fnd[f]) /\ ~fnd[f].dirty) =>
            /\ Len(fnd[f].data) =
                  Min(fnd[f].limit,
                      Max(0, fnd[f].totalItems - (fnd[f].page - 1) * fnd[f].limit))
            /\ \A k \in 1..Len(fnd[f].data) :
                  where(fnd[f].repo, fnd[f].opts, fnd[f].data[k])

\* C10: whatever page and limit the query parameters handed to findAll carry,
\* the options passed to the repository have page >= 1 and 1 <= limit <= 100,
\* with page = 1 when page is absent and limit = 10 when limit is absent.
C10_PageLimitResolved ==
    \A f \in Finders :
        fnd[f].via = "service" =>
            /\ fnd[f].opts.page # NoNum /\ fnd[f].opts.limit # NoNum
            /\ fnd[f].opts.page[1] >= 1
            /\ fnd[f].opts.limit[1] >= 1 /\ fnd[f].opts.limit[1] <= LimitCap
            /\ fnd[f].qp.page = NoNum => fnd[f].opts.page = Num(DefaultPage)
            /\ fnd[f].qp.limit = NoNum => fnd[f].opts.limit = Num(DefaultLimit)

\* every filter key present in the options holds of the record
satisfiesAll(repo, o, r) ==
    IF repo = "product" THEN productWhere(o, r)
    ELSE /\ Falsy(o.email) \/ containsInsensitive(r.email, o.email)
         /\ Falsy(o.search) \/ containsInsensitive(r.email, o.search)

\* C11: every record returned by findWithFilters (Product and User) satisfies
\* all filter keys present in the options at once, and totalItems counts
\* exactly the stored records that satisfy all of them, also for a User query
\* that carries both an email filter and a search filter.
C11_ConjunctiveFilter ==
    \A f \in Finders :
        Finished(fnd[f]) =>
            /\ \A k \in 1..Len(fnd[f].data) :
                  satisfiesAll(fnd[f].repo, fnd[f].opts, fnd[f].data[k])
            /\ fnd[f].totalItems =
                  Cardinality({r \in fnd[f].seenCount :
                                  satisfiesAll(fnd[f].repo, fnd[f].opts, r)})

\* the requested fields that search accepts
Requested(rec) ==
    {rec.fields[k] : k \in 1..Len(rec.fields)} \cap SearchableFields(rec.repo)

\* C12: search(query, fields) of either repository matches on exactly the
\* requested fields that are on the allow-list (name, description, category
\* for Product; email for User): a stored record is returned, once, iff one
\* of those fields contains the query case-insensitively; with no requested
\* field on the allow-list the result is empty and no query is issued.
C12_SearchAllowList ==
    \A f \in Finders :
        srch[f].pc = "done" =>
            /\ (Requested(srch[f]) = {}) => (srch[f].result = <<>> /\ ~srch[f].queried)
            /\ (Requested(srch[f]) # {}) => srch[f].queried
            /\ \A k \in 1..Len(srch[f].result) : srch[f].result[k] \in srch[f].seen
            /\ \A r \in srch[f].seen :
                  Cardinality({k \in 1..Len(srch[f].result) : srch[f].result[k] = r})
                    = IF \E fl \in Requested(srch[f]) :
                            /\ IsString(fieldOf(r, fl))
                            /\ includes(toLowerCase(fieldOf(r, fl)), toLowerCase(srch[f].query))
                      THEN 1 ELSE 0

\* a search on an unknown field and name found one row by its name and left
\* out a row that matches on its description only
C12_Witness ==
    \E f \in Finders :
        /\ srch[f].pc = "done" /\ srch[f].repo = "product"
        /\ srch[f].fields = <<"price", "name">>
        /\ Len(srch[f].result) = 1
        /\ \E r \in srch[f].seen :
              /\ conditionHolds(r, "description", srch[f].query)
              /\ \A k \in 1..Len(srch[f].result) : srch[f].result[k] # r

\* C13 as stated: once remove(id) has succeeded, every later findOne(id),
\* update(id, ...) and remove(id) that meets no repository failure ends with
\* NotFoundException, whatever the update carries.
C13_RemovedStaysGone ==
    \A c \in Calls :
        (/\ call[c].op \in {"findOne", "update", "remove"}
         /\ call[c].pc = "done" /\ call[c].goneAtStart
         /\ ~Faulted(call[c]))
        => call[c].outcome = NotFoundException

\* C13: once remove(id) has succeeded the row never comes back, and every
\* later findOne(id), remove(id) and update(id, dto) with a dto that passes
\* validation ends with NotFoundException (barring a repository failure),
\* whatever happens to other ids in between; an update whose dto fails
\* validation is rejected with ValidationException before the existence check.
C13_RemovedStaysGoneValid ==
    /\ \A id \in ProductIds : Removed(id) => findById(products, id) = NoRow
    /\ \A c \in Calls :
        (/\ call[c].op \in {"findOne", "update", "remove"}
         /\ call[c].pc = "done" /\ call[c].goneAtStart
         /\ ~Faulted(call[c]))
        => IF call[c].op = "update" /\ validateUpdateProductDto(call[c].dto) # <<>>
           THEN call[c].outcome = ValidationException(validateUpdateProductDto(call[c].dto))
           ELSE call[c].outcome = NotFoundException

\* product 1 was removed, product 2 was created, and a findOne(1) that came
\* later was answered not found
C13_Witness ==
    \E c \in Calls :
        /\ call[c].op = "findOne" /\ call[c].id = 1 /\ call[c].goneAtStart
        /\ call[c].outcome = NotFoundException
        /\ findById(products, 2) # NoRow

\* C14: for every valid create payload the product create returns has name,
\* description, price and category equal to the normalized input (name and
\* category trimmed, category lower-cased, description trimmed, absent or
\* empty description stored as null), and a findOne on the returned id, with
\* no write to that id in between, returns the same record.
C14_CreateThenFindOne ==
    \A c \in Calls :
        (call[c].op = "create" /\ call[c].wrote) =>
            LET raw == call[c].raw
                rec == call[c].written
            IN  /\ rec.id >= 1
                /\ rec.name = trim(raw.name)
                /\ rec.description =
                      (IF ~IsString(raw.description) \/ Len(trim(raw.description)) = 0
                       THEN Null ELSE trim(raw.description))
                /\ rec.price = raw.price
                /\ rec.category = toLowerCase(trim(raw.category))
                /\ \A d \in Calls :
                      (/\ call[d].op = "findOne" /\ call[d].id = rec.id
                       /\ call[d].pc = "done" /\ call[d].outcome.kind = "success"
                       /\ rec \in products)
                      => call[d].existing = rec

\* " ab " with category "ty " was created as "ab" / "ty", and findOne on the
\* id create returned gave that record
C14_Witness ==
    \E c \in Calls : \E d \in Calls :
        /\ call[c].op = "create" /\ call[c].outcome.kind = "success"
        /\ call[c].raw.name = <<" ","a","b"," ">>
        /\ call[c].written.category = <<"t","y">>
        /\ call[d].op = "findOne" /\ call[d].outcome.kind = "success"
        /\ call[d].existing = call[c].written

\* C15: every get, update and delete addressed, through ProductService or
\* UserService, to an id that is not in the store reports a not-found error
\* (NotFoundException / status 404), writes nothing and publishes nothing.
C15_AbsentIdNotFound ==
    \A c \in Calls :
        /\ (call[c].pc = "done" /\ call[c].failedAt = "exists")
              => /\ call[c].outcome.code = 404
                 /\ ~call[c].wrote
                 /\ ~call[c].published
        /\ (/\ call[c].pc = "done" /\ call[c].id >= 1
            /\ call[c].op \in {"update", "remove"}
            /\ call[c].op = "update" => validateUpdateProductDto(call[c].dto) = <<>>
            /\ findById(products, call[c].id) = NoRow
            /\ ~call[c].wrote /\ ~Faulted(call[c]))
              => call[c].failedAt = "exists"

C17_AtLeastOneField ==
    \A c \in Calls :
        (call[c].op = "update" /\ call[c].id > 0) =>
            LET dto == call[c].dto
                nonePresent == /\ dto.name = Undefined /\ dto.description = Undefined
                               /\ ~dto.hasPrice /\ dto.category = Undefined
                rejected == /\ call[c].failedAt = "validate"
                            /\ \E k \in 1..Len(call[c].outcome.errors) :
                                  call[c].outcome.errors[k] = Err("body", "required")
            IN  rejected <=> nonePresent

\* C18: after any sequence of ProductService.create and update calls every
\* stored product has 0 < price <= 999,999.99; a create or update that carries
\* price 0, a negative price or a price above 999,999.99 is rejected with a
\* validation error and writes nothing.
C18_PriceRange ==
    /\ \A r \in products : r.price > 0 /\ r.price <= MaxPrice
    /\ \A c \in Calls :
          (/\ call[c].op \in {"create", "update"} /\ call[c].dto.hasPrice
           /\ (call[c].dto.price <= 0 \/ call[c].dto.price > MaxPrice))
          => /\ call[c].pc = "done"
             /\ call[c].outcome.kind = "ValidationException"
             /\ ~call[c].wrote

\* C19: generateHATEOASLinks, given a resource id, yields self = baseUrl/id and
\* related = {update: PATCH baseUrl/id, delete: DELETE baseUrl/id,
\* collection: GET baseUrl}; given no id, self = baseUrl and related =
\* {create: POST baseUrl}.  The update link carries PATCH, the method of the
\* route that performs the update.
C19_ResourceLinks ==
    lnk.built =>
        LET ctx == lnk.context
            links == lnk.links[1]
        IN  IF ctx.resourceId # NoNum
            THEN LET one == <<ctx.baseUrl, "/", ctx.resourceId[1]>>
                 IN  /\ links.self = one
                     /\ links.related =
                           [update |-> Link(one, "PATCH", "update"),
                            delete |-> Link(one, "DELETE", "delete"),
                            collection |-> Link(<<ctx.baseUrl>>, "GET", "collection")]
            ELSE /\ links.self = <<ctx.baseUrl>>
                 /\ links.related = [create |-> Link(<<ctx.baseUrl>>, "POST", "create")]

\* C20 as stated: with pagination fields in the context, first = baseUrl?page=1
\* always, last = baseUrl?page=totalPages exactly when totalPages is supplied,
\* prev = baseUrl?page=(currentPage-1) exactly when hasPrev and currentPage > 1,
\* next = baseUrl?page=(currentPage+1) exactly when hasNext; with no
\* pagination field in the context, no pagination links.
C20_PaginationLinks ==
    lnk.built =>
        LET ctx == lnk.context
            links == lnk.links[1]
            carries == \/ ctx.currentPage # NoNum \/ ctx.totalPages # NoNum
                       \/ ctx.hasNext # <<>> \/ ctx.hasPrev # <<>>
        IN  IF ~carries THEN links.pagination = <<>>
            ELSE /\ links.pagination # <<>>
                 /\ LET pg == links.pagination[1]
                    IN  /\ "first" \in DOMAIN pg /\ pg["first"] = <<ctx.baseUrl, "?page=", 1>>
                        /\ ("last" \in DOMAIN pg) <=> (ctx.totalPages # NoNum)
                        /\ ("prev" \in DOMAIN pg) <=>
                              (ctx.hasPrev = <<TRUE>> /\ ctx.currentPage # NoNum
                               /\ ctx.currentPage[1] > 1)
                        /\ ("next" \in DOMAIN pg) <=> (ctx.hasNext = <<TRUE>>)

\* C20: pagination links are emitted exactly when the context carries
\* currentPage.  Then first = baseUrl?page=1 always, last =
\* baseUrl?page=totalPages exactly when totalPages is supplied and not 0,
\* prev = baseUrl?page=(currentPage-1) exactly when hasPrev and currentPage > 1,
\* next = baseUrl?page=(currentPage+1) exactly when hasNext and currentPage
\* is not 0.
C20_PaginationLinksTruthy ==
    lnk.built =>
        LET ctx == lnk.context
            links == lnk.links[1]
        IN  IF ctx.currentPage = NoNum THEN links.pagination = <<>>
            ELSE /\ links.pagination # <<>>
                 /\ LET pg == links.pagination[1]
                        cp == ctx.currentPage[1]
                    IN  /\ DOMAIN pg \subseteq {"first", "last", "prev", "next"}
                        /\ "first" \in DOMAIN pg /\ pg["first"] = <<ctx.baseUrl, "?page=", 1>>
                        /\ ("last" \in DOMAIN pg) <=>
                              (ctx.totalPages # NoNum /\ ctx.totalPages[1] # 0)
                        /\ ("last" \in DOMAIN pg) =>
                              pg["last"] = <<ctx.baseUrl, "?page=", ctx.totalPages[1]>>
                        /\ ("prev" \in DOMAIN pg) <=> (ctx.hasPrev = <<TRUE>> /\ cp > 1)
                        /\ ("prev" \in DOMAIN pg) =>
                              pg["prev"] = <<ctx.baseUrl, "?page=", cp - 1>>
                        /\ ("next" \in DOMAIN pg) <=> (ctx.hasNext = <<TRUE>> /\ cp # 0)
                        /\ ("next" \in DOMAIN pg) =>
                              pg["next"] = <<ctx.baseUrl, "?page=", cp + 1>>

\* the links of an empty first page: totalPages is 0 and there is no last link
C20_Witness ==
    /\ lnk.built
    /\ lnk.context.currentPage = Num(1) /\ lnk.context.totalPages = Num(0)
    /\ lnk.context.hasNext = <<FALSE>> /\ lnk.context.hasPrev = <<FALSE>>
    /\ DOMAIN lnk.links[1].pagination[1] = {"first"}

\* C21: for a findAll request that carries a filter parameter (category)
\* together with page and limit, every pagination link of the response
\* carries the request's filter parameter besides its page parameter.  A link
\* is its base followed by key/value parts.
C21_LinksKeepFilters ==
    \A f \in Finders :
        LET rec == fnd[f]
        IN  (/\ rec.pc = "done" /\ rec.outcome = "success" /\ rec.via = "service"
             /\ rec.qp.category # Undefined
             /\ rec.qp.page # NoNum /\ rec.qp.limit # NoNum
             /\ rec.links[1].pagination # <<>>)
            => \A k \in DOMAIN rec.links[1].pagination[1] :
                  LET link == rec.links[1].pagination[1][k]
                  IN  \E i \in 2..(Len(link) - 1) :
                         /\ i % 2 = 0
                         /\ link[i] \in {"?category=", "&category="}
                         /\ link[i + 1] = rec.qp.category

\* C22: the related links of a single-resource response (a context with a
\* resource id) contain update, delete, collection, search and categories;
\* those of a collection response (no resource id) contain create, search and
\* categories, and those of the list response (a collection context with
\* pagination fields) also filter-by-category and filter-by-price.
C22_RelatedLinks ==
    lnk.built =>
        LET ctx == lnk.context
            related == DOMAIN lnk.links[1].related
        IN  /\ ctx.resourceId # NoNum =>
                  {"update", "delete", "collection", "search", "categories"} \subseteq related
            /\ ctx.resourceId = NoNum =>
                  {"create", "search", "categories"} \subseteq related
            /\ (ctx.resourceId = NoNum /\ ctx.currentPage # NoNum) =>
                  {"filter-by-category", "filter-by-price"} \subseteq related

\* C23: a productCreated or productUpdated event is delivered to a subscriber
\* iff the subscriber supplied no filter, or the product satisfies all of:
\* categories is absent or empty or contains product.category; minPrice is
\* absent or product.price >= minPrice; maxPrice is absent or product.price
\* <= maxPrice.  A field is absent when it is undefined or null; userId
\* plays no part.
C23_SubscriptionFilter ==
    flt.decided =>
        (flt.delivered <=>
            \/ flt.filter = NoFilter
            \/ LET fl == flt.filter[1]
                   absent(fld) == fld.kind \in {"undefined", "null"}
               IN  /\ \/ absent(fl.categories)
                      \/ Len(fl.categories.v) = 0
                      \/ \E i \in 1..Len(fl.categories.v) :
                            fl.categories.v[i] = flt.product.category
                   /\ absent(fl.minPrice) \/ flt.product.price >= fl.minPrice.v
                   /\ absent(fl.maxPrice) \/ flt.product.price <= fl.maxPrice.v)

\* two updates of one product: the write of d was applied onto the row c had
\* written (writes in the order c, d) and changed it, d's event was published
\* first and c's event is the last one published
WritesThenEventsSwapped(c, d) ==
    /\ call[c].op = "update" /\ call[d].op = "update" /\ call[c].id = call[d].id
    /\ call[c].published /\ call[d].published
    /\ call[d].written = updatedRow(call[c].written, call[d].dto)
    /\ call[d].written # call[c].written
    /\ findById(products, call[d].id) = call[d].written
    /\ Len(events) >= 2
    /\ events[Len(events)].by = c /\ events[Len(events)].topic = "productUpdated"
    /\ events[Len(events) - 1].by = d /\ events[Len(events) - 1].topic = "productUpdated"

\* C24: two concurrent updates of one product can have their writes applied in
\* the order A, B and their productUpdated events published in the order B, A;
\* the last event then carries the row A wrote, which is not the product's
\* stored state.
C24_EventOrderNotWriteOrder ==
    \A c \in Calls : \A d \in Calls \ {c} :
        WritesThenEventsSwapped(c, d)
        => /\ events[Len(events) - 1].payload = call[d].written
           /\ events[Len(events)].payload = call[c].written
           /\ events[Len(events)].payload # findById(products, call[c].id)

\* the writes went A then B, the events B then A
C24_Witness ==
    \E c \in Calls : \E d \in Calls \ {c} : WritesThenEventsSwapped(c, d)

\* C25: of the concurrent remove(id) calls on one existing product exactly one
\* deletes the row, returns success and publishes productDeleted; every other
\* call fails without publishing: with the generic BadRequestException when
\* its existence check ran before the winning delete (it had found the row),
\* with NotFoundException when it ran after.  No id ever has more than one
\* productDeleted event.
C25_OneRemoveWins ==
    /\ \A i \in 1..Len(events) : \A j \in 1..Len(events) :
          (/\ events[i].topic = "productDeleted" /\ events[j].topic = "productDeleted"
           /\ events[i].payload.id = events[j].payload.id) => i = j
    /\ \A c \in Calls :
          (call[c].op = "remove" /\ call[c].pc = "done") =>
             /\ call[c].outcome.kind = "success" => (call[c].wrote /\ call[c].published)
             /\ call[c].outcome.kind # "success" => (~call[c].wrote /\ ~call[c].published)
             /\ (call[c].id > 0 /\ call[c].existing # NoRow /\ ~call[c].wrote)
                   => call[c].outcome = BadRequestException(FailedMessage("remove"))
             /\ (call[c].id > 0 /\ call[c].existing = NoRow)
                   => call[c].outcome = NotFoundException
    /\ \A c \in Calls : \A d \in Calls \ {c} :
          (/\ call[c].op = "remove" /\ call[d].op = "remove" /\ call[c].id = call[d].id
           /\ ~call[c].goneAtStart /\ ~call[d].goneAtStart
           /\ call[c].existing # NoRow \/ call[d].existing # NoRow)
          => /\ ~(call[c].wrote /\ call[d].wrote)
             /\ (call[c].pc = "done" /\ call[d].pc = "done")
                   => (call[c].outcome.kind = "success") # (call[d].outcome.kind = "success")

\* two removes of the same product have both found the row; one has deleted it
\* and returned success, the other has failed at its delete
C25_Witness ==
    \E c \in Calls : \E d \in Calls \ {c} :
        /\ call[c].op = "remove" /\ call[d].op = "remove" /\ call[c].id = call[d].id
        /\ call[c].pc = "done" /\ call[c].outcome.kind = "success"
        /\ call[d].pc = "done" /\ call[d].existing # NoRow
        /\ call[d].outcome = BadRequestException(FailedMessage("remove"))

\* C26: when ProductService calls do not interleave, the product names of the
\* store stay pairwise distinct case-insensitively; an update is rejected as
\* duplicate only when a product with a different id holds the name, and an
\* update that re-sends the product's own name, or changes only its letter
\* case, is accepted.
C26_NamesStayDistinct ==
    /\ \A r \in products : \A q \in products :
          r.id # q.id => toLowerCase(r.name) # toLowerCase(q.name)
    /\ \A c \in Calls :
          (call[c].op = "update" /\ call[c].pc = "done") =>
             /\ call[c].failedAt = "unique" =>
                   \E p \in products :
                      /\ p.id # call[c].id
                      /\ toLowerCase(p.name) = toLowerCase(call[c].dto.name)
             /\ (/\ call[c].existing # NoRow /\ ~Falsy(call[c].dto.name)
                 /\ toLowerCase(call[c].dto.name) = toLowerCase(call[c].existing.name)
                 /\ ~Faulted(call[c]))
                => /\ call[c].outcome.kind = "success"
                   /\ findById(products, call[c].id).name = call[c].dto.name

\* an update that changed only the letter case of the product's name has
\* been accepted
C26_Witness ==
    \E c \in Calls :
        /\ call[c].op = "update" /\ call[c].pc = "done"
        /\ call[c].outcome.kind = "success"
        /\ call[c].dto.name # call[c].existing.name
        /\ toLowerCase(call[c].dto.name) = toLowerCase(call[c].existing.name)
        /\ findById(products, call[c].id).name = call[c].dto.name

\* C27: in every ProductService.findAll response, links.pagination.next is
\* present iff meta.pagination.hasNext is true and then addresses page
\* currentPage + 1, and links.pagination.prev is present iff
\* meta.pagination.hasPrev is true and then addresses page currentPage - 1,
\* which is at least 1.
C27_LinksAgreeWithMeta ==
    \A f \in Finders :
        LET rec == fnd[f]
        IN  (rec.pc = "done" /\ rec.outcome = "success" /\ rec.via = "service") =>
               /\ rec.links[1].pagination # <<>>
               /\ LET pg == rec.links[1].pagination[1]
                      meta == rec.pagination
                  IN  /\ ("next" \in DOMAIN pg) <=> meta.hasNext
                      /\ ("next" \in DOMAIN pg) =>
                            pg["next"] = <<rec.links[1].self[1], "?page=",
                                           meta.currentPage + 1>>
                      /\ ("prev" \in DOMAIN pg) <=> meta.hasPrev
                      /\ ("prev" \in DOMAIN pg) =>
                            /\ pg["prev"] = <<rec.links[1].self[1], "?page=",
                                              meta.currentPage - 1>>
                            /\ meta.currentPage - 1 >= 1

\* a findAll response for a middle page: both next and prev links are there
C27_Witness ==
    \E f \in Finders :
        /\ fnd[f].pc = "done" /\ fnd[f].outcome = "success" /\ fnd[f].via = "service"
        /\ fnd[f].pagination.hasNext /\ fnd[f].pagination.hasPrev
        /\ {"next", "prev"} \subseteq DOMAIN fnd[f].links[1].pagination[1]

C29_FiltersIffPresent ==
    \A f \in Finders :
        LET qp == fnd[f].qp
            o == fnd[f].opts
        IN  (fnd[f].pc # "idle" /\ fnd[f].via = "service") =>
               /\ \A k \in {"category", "search", "name"} :
                     /\ (o[k] # Undefined) <=> (qp[k] # Undefined)
                     /\ o[k] # Undefined => o[k] = qp[k]
               /\ o.minPrice = qp.minPrice /\ o.maxPrice = qp.maxPrice
               /\ o.hasFilters <=>
                     \/ qp.category # Undefined \/ qp.search # Undefined
                     \/ qp.name # Undefined
                     \/ qp.minPrice # NoNum \/ qp.maxPrice # NoNum
               /\ (o.sort # NoSort) <=> (qp.sortBy # "")
               /\ o.sort # NoSort =>
                     /\ o.sort.field = qp.sortBy
                     /\ o.sort.order = IF qp.sortOrder # "" THEN qp.sortOrder ELSE "asc"

\* C29: a string filter key (category, search, name) is in filters iff the raw
\* parameter is present and not the empty string; a price bound is in filters
\* iff it is present, 0 included; values pass through unchanged; filters is
\* left out iff no key would be in it; sort is included iff sortBy is present,
\* with order defaulting to 'asc'.
C29_FiltersIffTruthy ==
    \A f \in Finders :
        LET qp == fnd[f].qp
            o == fnd[f].opts
        IN  (fnd[f].pc # "idle" /\ fnd[f].via = "service") =>
               /\ \A k \in {"category", "search", "name"} :
                     /\ (o[k] # Undefined) <=> (qp[k] # Undefined /\ qp[k] # <<>>)
                     /\ o[k] # Undefined => o[k] = qp[k]
               /\ o.minPrice = qp.minPrice /\ o.maxPrice = qp.maxPrice
               /\ o.hasFilters <=>
                     \/ \E k \in {"category", "search", "name"} :
                           qp[k] # Undefined /\ qp[k] # <<>>
                     \/ qp.minPrice # NoNum \/ qp.maxPrice # NoNum
               /\ (o.sort # NoSort) <=> (qp.sortBy # "")
               /\ o.sort # NoSort =>
                     /\ o.sort.field = qp.sortBy
                     /\ o.sort.order = IF qp.sortOrder # "" THEN qp.sortOrder ELSE "asc"

\* a request whose only filter parameters are an empty category and a
\* minPrice of 0: filters holds the price bound and no category
C29_Witness ==
    \E f \in Finders :
        /\ fnd[f].pc # "idle" /\ fnd[f].via = "service"
        /\ fnd[f].qp.category = <<>> /\ fnd[f].qp.minPrice = Num(0)
        /\ fnd[f].qp.maxPrice = NoNum /\ fnd[f].qp.search = Undefined
        /\ fnd[f].qp.name = Undefined
        /\ fnd[f].opts.hasFilters /\ fnd[f].opts.minPrice = Num(0)
        /\ fnd[f].opts.category = Undefined

\* a read was handed an invalid argument: id <= 0, a blank query or category,
\* a negative or inverted price range
InvalidArgument(rec) ==
    CASE rec.op \in {"findOne", "getUserById"} -> rec.id <= 0
      [] rec.op \in {"search", "findByCategory"} ->
           Falsy(rec.args[1]) \/ trim(rec.args[1]) = <<>>
      [] rec.op = "findByPriceRange" ->
           rec.args[1] < 0 \/ rec.args[2] < 0 \/ rec.args[1] > rec.args[2]
      [] OTHER -> FALSE

\* C30: no step of a read operation (findAll, findOne, search, findByCategory,
\* findByPriceRange, getCategories, getUserById, getAllUsers) changes the
\* stored products or users or publishes an event, whether the read succeeds
\* or fails; a read handed an invalid argument is rejected on arrival, before
\* any repository access.
C30_ReadsChangeNothing ==
    [][/\ \A c \in Calls :
             (call'[c] # call[c] /\ call'[c].op \in ProductReads \cup UserReads) =>
                /\ products' = products /\ users' = users /\ events' = events
                /\ nextId' = nextId /\ nextUid' = nextUid /\ subs' = subs
                /\ InvalidArgument(call'[c]) =>
                      /\ call[c].pc = "idle" /\ call'[c].pc = "done"
                      /\ call'[c].outcome.kind = "ValidationException"
       /\ \A f \in Finders :
             (fnd'[f] # [fnd[f] EXCEPT !.dirty = fnd'[f].dirty]
              /\ "service" \in {fnd[f].via, fnd'[f].via}) =>
                /\ products' = products /\ users' = users /\ events' = events
                /\ nextId' = nextId /\ nextUid' = nextUid /\ subs' = subs]_vars

====
